---- MODULE Spec2Model ----
(***************************************************************************)
(* Model of the incremental reconciliation engine of lit-markdown-viewer   *)
(* (src/src/components/markdown-viewer/morph.ts): the djb2 hasher, the     *)
(* per-container morph state, the whole-tree patch with hash skip, its     *)
(* requestAnimationFrame-batched variant, the positional top-level patch   *)
(* and the reset operations.                                               *)
(*                                                                         *)
(* Strings are sequences of UTF-16 char codes.  A container's children are *)
(* a sequence of element nodes [html, prot]: html is the node's outerHTML, *)
(* prot says that it carries the data-morph-ignore attribute.              *)
(***************************************************************************)
EXTENDS Integers, Sequences, FiniteSets, TLC

\* ------------------------------------------------------------------------
\* Bounds of the model
\* ------------------------------------------------------------------------

\* Largest number of top-level nodes of a markup string handed to an operation.
MaxNodes == 2

\* ------------------------------------------------------------------------
\* JavaScript numbers on 16-bit halves: <<hi, lo>> is hi * 2^16 + lo with lo
\* in 0..2^16-1; an int32 has hi in -2^15..2^15-1, a uint32 hi in 0..2^16-1
\* ------------------------------------------------------------------------

Half == 2 ^ 16

\* bit k of the natural a
Bit(a, k) == (a \div (2 ^ k)) % 2

\* bitwise xor of two 16-bit naturals
Xor16(a, b) ==
  LET x(k) == ((Bit(a, k) + Bit(b, k)) % 2) * (2 ^ k)
  IN  x(0) + x(1) + x(2) + x(3) + x(4) + x(5) + x(6) + x(7)
      + x(8) + x(9) + x(10) + x(11) + x(12) + x(13) + x(14) + x(15)

\* ToInt32: the operand of << and ^ wrapped into -2^31..2^31-1
ToInt32(h) == <<((h[1] + Half \div 2) % Half) - Half \div 2, h[2]>>

\* hash << 5: the int32 shifted left, the bits above bit 31 dropped
ShiftLeft5(h) ==
  LET lo32 == h[2] * 32
  IN  ToInt32(<<h[1] * 32 + (lo32 \div Half), lo32 % Half>>)

\* a + b on Numbers (exact: the sum of two int32 is far below 2^53)
Plus(a, b) ==
  LET lo == a[2] + b[2]
  IN  <<a[1] + b[1] + (lo \div Half), lo % Half>>

\* x ^ code for a UTF-16 char code: ToInt32(x), then the xor of the bits (the
\* code has 16 bits: only the low half changes)
XorCode(h, code) == LET x == ToInt32(h) IN <<x[1], Xor16(x[2], code)>>

\* hash >>> 0: the int32 read as a uint32
ToUint32_Signed(h) == h

ToUint32(h) == <<h[1] % Half, h[2]>>

\* ------------------------------------------------------------------------
\* Hashing utility
\* ------------------------------------------------------------------------

Seed == 5381

SeedWord == <<Seed \div Half, Seed % Half>>

\* one iteration of the loop of simpleHash:
\* hash = ((hash << 5) + hash) ^ str.charCodeAt(i)
HashStep(h, code) == XorCode(Plus(ShiftLeft5(h), h), code)

\* an int32
IsInt32(h) == h[1] \in (0 - Half \div 2)..(Half \div 2 - 1) /\ h[2] \in 0..(Half - 1)

\* the loop `for (let i = 0; i < str.length; i++)` from position i on (the
\* accumulator is an int32 at every iteration; testing it keeps the
\* evaluation iterative)
RECURSIVE HashLoop(_, _, _)
HashLoop(str, i, h) ==
  IF i > Len(str) \/ ~IsInt32(h) THEN h ELSE HashLoop(str, i + 1, HashStep(h, str[i]))

\* simpleHash(str) = `${str.length}:${hash >>> 0}`.  The decimal rendering
\* of the two numbers around ':' is one-to-one, so the result is kept as
\* the pair of numbers (the second one as its two 16-bit halves).
simpleHash(str) == [len |-> Len(str), u |-> ToUint32(HashLoop(str, 1, SeedWord))]

\* the empty string '' a fresh state carries as contentHash
EmptyHash == [len |-> -1, u |-> <<0, 0>>]

\* ------------------------------------------------------------------------
\* Markup: strings, and the browser's parse of them into top-level elements
\* ------------------------------------------------------------------------

\* "<p>bC</p>", "<p>cb</p>" (same djb2 value as NodeA) and "<p>dd</p>"
NodeA == <<60, 112, 62, 98, 67, 60, 47, 112, 62>>
NodeX == <<60, 112, 62, 99, 98, 60, 47, 112, 62>>
NodeB == <<60, 112, 62, 100, 100, 60, 47, 112, 62>>

\* the close tag "</p>"
CloseP == <<60, 47, 112, 62>>

NodeStrings == {NodeA, NodeX, NodeB}

\* "<i data-morph-ignore></i>" is abbreviated to "<i></i>": the attribute is
\* the prot field of the node
SentinelHtml == <<60, 105, 62, 60, 47, 105, 62>>

RECURSIVE Concat(_)
Concat(ss) == IF ss = <<>> THEN <<>> ELSE Head(ss) \o Concat(Tail(ss))

NodeSeqs(n) == UNION {[1..k -> NodeStrings] : k \in 0..n}

\* the markup strings the operations are called with
Markups == {Concat(ns) : ns \in NodeSeqs(MaxNodes)}

\* index of the '>' that ends the first close tag "</p>" at or after i (0: none)
RECURSIVE CloseTagEnd(_, _)
CloseTagEnd(str, i) ==
  IF i + 3 > Len(str) THEN 0
  ELSE IF SubSeq(str, i, i + 3) = CloseP THEN i + 3
  ELSE CloseTagEnd(str, i + 1)

\* temp.innerHTML = newHtml; temp.children[k].outerHTML, for markup made of
\* flat <p> elements
RECURSIVE ParseOuterHTML(_)
ParseOuterHTML(str) ==
  LET e == CloseTagEnd(str, 1)
  IN  IF e = 0 THEN <<>>
      ELSE <<SubSeq(str, 1, e)>> \o ParseOuterHTML(SubSeq(str, e + 1, Len(str)))

MkNode(html) == [html |-> html, prot |-> FALSE]

Sentinel == [html |-> SentinelHtml, prot |-> TRUE]

\* ------------------------------------------------------------------------
\* Tables over the strings of the model (evaluated once)
\* ------------------------------------------------------------------------

\* f @@ g builds the table of f's values once
Table(f) == f @@ [x \in {} |-> x]

HashOf == Table([s \in Markups \cup NodeStrings |-> simpleHash(s)])

ChildrenOf == Table([m \in Markups |-> ParseOuterHTML(m)])

\* ------------------------------------------------------------------------
\* The external patch primitive (Idiomorph) with the beforeNodeRemoved veto
\* ------------------------------------------------------------------------

NodesOf(htmls) == [k \in 1..Len(htmls) |-> MkNode(htmls[k])]

\* Idiomorph.morph(element, newHtml, IDIOMORPH_OPTIONS), morphStyle innerHTML,
\* on the element's children `old`: each new <p> is morphed into the next old
\* <p>; old nodes left over are removed unless beforeNodeRemoved vetoes
\* (prot); new nodes left over are inserted at the insertion point.
RECURSIVE MorphInner(_, _)
MorphInner(old, new) ==
  IF old = <<>> THEN NodesOf(new)
  ELSE IF Head(old).prot
    THEN IF new = <<>> \/ \E k \in 2..Len(old) : ~old[k].prot
           THEN <<Head(old)>> \o MorphInner(Tail(old), new)
           ELSE NodesOf(new) \o old
  ELSE IF new = <<>> THEN MorphInner(Tail(old), new)
  ELSE <<MkNode(Head(new))>> \o MorphInner(Tail(old), Tail(new))

\* Idiomorph.morph(oldChild, newChild.outerHTML, {morphStyle: 'outerHTML'}):
\* a node of another tag is replaced, unless beforeNodeRemoved vetoes
MorphOuter(oldChild, newHtml) ==
  IF oldChild.prot THEN oldChild ELSE MkNode(newHtml)

\* ------------------------------------------------------------------------
\* State
\* ------------------------------------------------------------------------

Containers == {"c1", "c2"}

\* null, for a container, for a markup string and for a frame handle
Null == "null"

NullHtml == <<-1>>

NoHandle == 0

\* no entry in the WeakMap morphStates
NoState == [absent |-> TRUE]

ZeroStats == [updated |-> 0, skipped |-> 0, added |-> 0, removed |-> 0]

\* the record getState creates
FreshState == [prevHashes |-> <<>>, contentHash |-> EmptyHash, lastStats |-> ZeroStats]

VARIABLES
  dom,            \* container -> its element children (the live tree)
  morphStates,    \* container -> ElementMorphState, or NoState
  pendingMorph,   \* handle of the requested animation frame, or Null
  pendingElement, \* container of the pending morph, or Null
  pendingHtml,    \* markup of the pending morph, or Null
  rafQueue,       \* the browser's requested frame callbacks: [handle, newHash]
  lastOp,         \* history: the last call of the engine and what it did
  lastWhole,      \* history: container -> markup of the last whole-tree morph of it
  caches,         \* partition -> the LRUCache: [cache, sizeEstimates, totalBytes]
  hung,           \* a call of the cache manager is in a loop it never leaves
  lastCache,      \* history: the last call on a cache and what it returned
  recency,        \* history: partition -> live keys by last set or successful get
  text,           \* MarkdownViewer.text
  isStreaming,    \* MarkdownViewer.isStreaming
  throttleMs,     \* MarkdownViewer.throttleMs
  changed,        \* the names of Lit's changedProperties for the pending update
  oldStreaming,   \* changedProperties.get('isStreaming'), when isStreaming is in changed
  throttledText,  \* _throttledText
  hasStreamed,    \* _hasStreamed
  lastThrottleTime,   \* _lastThrottleTime, ms
  rafScheduled,       \* _rafScheduled
  adaptiveThrottleMs, \* _adaptiveThrottleMs, in 1/Resolution ms
  lastMorphDuration,  \* _lastMorphDuration, ms
  rendered,       \* the template Lit rendered last: "none", "static" or "sync"
  now,            \* Date.now(), ms
  viewerRafs,     \* the callbacks _updateThrottledText requested and the browser has not run
  lastView        \* history: the last step of the viewer and what it did

viewerVars == <<text, isStreaming, throttleMs, changed, oldStreaming, throttledText,
                hasStreamed, lastThrottleTime, rafScheduled, adaptiveThrottleMs,
                lastMorphDuration, rendered, now, viewerRafs, lastView>>

vars == <<dom, morphStates, pendingMorph, pendingElement, pendingHtml, rafQueue, lastOp,
          lastWhole, caches, hung, lastCache, recency, viewerVars>>

pendingVars == <<pendingMorph, pendingElement, pendingHtml, rafQueue>>

cacheVars == <<caches, hung, lastCache, recency>>

morphVars == <<dom, morphStates, pendingVars, lastOp, lastWhole>>

\* what the history records of a call: the operation and its arguments, how
\* often Idiomorph.morph ran on a whole container (patched), whether
\* requestAnimationFrame was called (scheduled), the container whose requested
\* frame the call cancelled (cancelled), the positions on which the single-node morph
\* ran (touched), the value returned (ret), and what the call before it
\* was (prev): the same call, a resetMorphCache of the same container, the
\* frame that morphed the same container to the same markup, a
\* morphContentOptimized of the same container with the same nodes in another
\* order, or anything else, and the markup of the last whole-tree morph of the
\* container before the call (was)
\* the markup strings have the same top-level nodes, in another order that
\* changes the node of every position
Reordered(m1, m2) ==
  LET a == ChildrenOf[m1]
      b == ChildrenOf[m2]
  IN  /\ Len(a) = Len(b)
      /\ \A s \in NodeStrings :
           Cardinality({k \in 1..Len(a) : a[k] = s}) = Cardinality({k \in 1..Len(b) : b[k] = s})
      /\ \A k \in 1..Len(a) : a[k] # b[k]

Prev(op, c, m) ==
  IF lastOp.op = op /\ lastOp.c = c /\ lastOp.m = m THEN "same"
  ELSE IF op = "children" /\ lastOp.op = op /\ lastOp.c = c /\ Reordered(lastOp.m, m)
    THEN "reorder"
  ELSE IF lastOp.op = "reset" /\ lastOp.c = c THEN "reset"
  ELSE IF lastOp.op = "frame" /\ lastOp.c = c /\ lastOp.m = m /\ lastOp.patched = 1
    THEN "fired"
  ELSE "other"

\* the container whose frame `if (pendingMorph !== null) cancelAnimationFrame`
\* cancels
Cancelled == IF pendingMorph # NoHandle THEN pendingElement ELSE Null

Op(op, c, m, patched, scheduled, cancelled, touched, ret) ==
  [op |-> op, c |-> c, m |-> m, patched |-> patched, scheduled |-> scheduled,
   cancelled |-> cancelled, touched |-> touched, ret |-> ret, prev |-> Prev(op, c, m),
   was |-> IF c = Null THEN NullHtml ELSE lastWhole[c]]

\* the named caches of the CacheManager that the model follows
Partitions == {"renderSync", "morph"}

\* `undefined`, as cache.get(key) returns it
Undefined == <<-1>>

\* set(key, value) called without sizeBytes
NoHint == -1

\* new LRUCache: empty maps, totalBytes = 0
EmptyCache == [cache |-> <<>>, sizeEstimates |-> <<>>, totalBytes |-> 0]

NoCacheOp == [op |-> "init", p |-> Null, key |-> "", value |-> Undefined, hint |-> NoHint,
              n |-> 0, ret |-> Undefined, found |-> FALSE, before |-> <<>>]

\* throttleMs = 50
DefaultThrottleMs == 50

\* Date.now() at construction: ms since the epoch, above every interval
Epoch == 1000

\* what the history records of a step of the viewer: the step (op); whether
\* it assigned _throttledText (applied), called requestAnimationFrame
\* (requested), began a streaming session (start), was an update for a changed
\* text (content); the text when the
\* outstanding callback was requested (schedText) and the content events
\* since, that one included, counted up to 2 (events); whether content was
\* applied since isStreaming was last seen false (sessionApplied); whether the
\* duration measured was the one measured before (repeat) and the interval
\* rose (rose)
NoViewOp == [op |-> "init", applied |-> FALSE, requested |-> FALSE, start |-> FALSE,
             content |-> FALSE,
             schedText |-> "", events |-> 0, sessionApplied |-> FALSE,
             repeat |-> FALSE, rose |-> FALSE]

Init ==
  /\ text = ""
  /\ isStreaming = FALSE
  /\ throttleMs = DefaultThrottleMs
  /\ changed = {"text", "isStreaming", "throttleMs"}
  /\ oldStreaming = FALSE
  /\ throttledText = ""
  /\ hasStreamed = FALSE
  /\ lastThrottleTime = 0
  /\ rafScheduled = FALSE
  /\ adaptiveThrottleMs = 0
  /\ lastMorphDuration = 0
  /\ rendered = "none"
  /\ now = Epoch
  /\ viewerRafs = 0
  /\ lastView = NoViewOp
  /\ dom = [c \in Containers |-> <<>>]
  /\ morphStates = [c \in Containers |-> NoState]
  /\ pendingMorph = NoHandle
  /\ pendingElement = Null
  /\ pendingHtml = NullHtml
  /\ rafQueue = <<>>
  /\ lastOp = [op |-> "init", c |-> Null, m |-> NullHtml, patched |-> 0, scheduled |-> FALSE,
               cancelled |-> Null, touched |-> {}, ret |-> FALSE, prev |-> "other",
               was |-> NullHtml]
  /\ lastWhole = [c \in Containers |-> NullHtml]
  /\ caches = [p \in Partitions |-> EmptyCache]
  /\ hung = FALSE
  /\ lastCache = NoCacheOp
  /\ recency = [p \in Partitions |-> <<>>]

\* ------------------------------------------------------------------------
\* Per-instance state
\* ------------------------------------------------------------------------

\* getState(container): the state it returns ...
getState(ms, c) == IF ms[c] = NoState THEN FreshState ELSE ms[c]

\* ... and the WeakMap after it (the entry is created when missing)
WithState(ms, c) == [ms EXCEPT ![c] = getState(ms, c)]

\* ------------------------------------------------------------------------
\* The browser's animation frame queue
\* ------------------------------------------------------------------------

Handles(q) == {q[k].handle : k \in 1..Len(q)}

\* requestAnimationFrame returns a handle no queued callback has
FreshHandle(q) == CHOOSE h \in 1..(Len(q) + 1) : h \notin Handles(q)

RECURSIVE Without(_, _)
\* cancelAnimationFrame(handle)
Without(q, handle) ==
  IF q = <<>> THEN <<>>
  ELSE IF Head(q).handle = handle THEN Without(Tail(q), handle)
  ELSE <<Head(q)>> \o Without(Tail(q), handle)

\* ------------------------------------------------------------------------
\* Whole-tree morph: synchronous and batched on the animation frame
\* ------------------------------------------------------------------------

SameContent_Never(state, newHash) == FALSE

SameContent_LengthOnly(state, newHash) == state.contentHash.len = newHash.len

\* the fast path test `state.contentHash === newHash`
SameContent(state, newHash) == state.contentHash = newHash

\* morphContentSync(element, newHtml)
morphContentSync(c, m) ==
  LET newHash == HashOf[m]
      state == getState(morphStates, c)
  IN  /\ IF SameContent(state, newHash)
           THEN /\ morphStates' = WithState(morphStates, c)
                /\ dom' = dom
                /\ lastWhole' = lastWhole
                /\ lastOp' = Op("sync", c, m, 0, FALSE, Null, {}, FALSE)
           ELSE /\ morphStates' =
                     [morphStates EXCEPT ![c] = [state EXCEPT !.contentHash = newHash]]
                /\ dom' = [dom EXCEPT ![c] = MorphInner(dom[c], ChildrenOf[m])]
                /\ lastWhole' = [lastWhole EXCEPT ![c] = m]
                /\ lastOp' = Op("sync", c, m, 1, FALSE, Null, {}, FALSE)
      /\ UNCHANGED <<pendingVars, cacheVars>>

\* the trees Idiomorph.morph may leave when it throws part-way: the first k
\* children as the morph leaves them, the rest as they were
Intermediate(old, new) ==
  LET patched == MorphInner(old, new)
  IN  {SubSeq(patched, 1, k) \o SubSeq(old, k + 1, Len(old)) : k \in 0..Len(patched)}

\* morphContentSync(element, newHtml) when Idiomorph.morph throws: the
\* statements before the call have run, the exception leaves the function
morphContentSyncThrows(c, m) ==
  LET newHash == HashOf[m]
      state == getState(morphStates, c)
  IN  /\ ~SameContent(state, newHash)
      /\ morphStates' = [morphStates EXCEPT ![c] = [state EXCEPT !.contentHash = newHash]]
      /\ \E tree \in Intermediate(dom[c], ChildrenOf[m]) : dom' = [dom EXCEPT ![c] = tree]
      /\ lastWhole' = lastWhole
      /\ lastOp' = Op("syncThrew", c, m, 0, FALSE, Null, {}, FALSE)
      /\ UNCHANGED <<pendingVars, cacheVars>>

\* the queue after `if (pendingMorph !== null) cancelAnimationFrame(pendingMorph)`
CancelPending(q, handle) == IF handle # NoHandle THEN Without(q, handle) ELSE q

\* morphContent(element, newHtml)
morphContent(c, m) ==
  LET newHash == HashOf[m]
      state == getState(morphStates, c)
      kept == CancelPending(rafQueue, pendingMorph)
      handle == FreshHandle(kept)
  IN  /\ morphStates' = WithState(morphStates, c)
      /\ UNCHANGED <<dom, lastWhole, cacheVars>>
      /\ IF SameContent(state, newHash)
           THEN /\ UNCHANGED pendingVars
                /\ lastOp' = Op("deferred", c, m, 0, FALSE, Null, {}, FALSE)
           ELSE /\ pendingElement' = c
                /\ pendingHtml' = m
                /\ rafQueue' = Append(kept, [handle |-> handle, newHash |-> newHash])
                /\ pendingMorph' = handle
                /\ lastOp' = Op("deferred", c, m, 0, TRUE, Cancelled, {}, FALSE)

\* the callback morphContent hands to requestAnimationFrame, run on the
\* engine's variables S = [dom, ms, pm, pe, ph] (and the history patched, lw)
RunCallback(cb, S) ==
  LET morphs == S.pe # Null /\ S.ph # NullHtml
      state == getState(S.ms, S.pe)
  IN  [dom |-> IF morphs
                 THEN [S.dom EXCEPT ![S.pe] = MorphInner(S.dom[S.pe], ChildrenOf[S.ph])]
                 ELSE S.dom,
       ms |-> IF morphs
                THEN [S.ms EXCEPT ![S.pe] = [state EXCEPT !.contentHash = cb.newHash]]
                ELSE S.ms,
       lw |-> IF morphs THEN [S.lw EXCEPT ![S.pe] = S.ph] ELSE S.lw,
       pm |-> NoHandle, pe |-> Null, ph |-> NullHtml,
       patched |-> IF morphs THEN S.patched + 1 ELSE S.patched]

RECURSIVE RunFrame(_, _)
RunFrame(q, S) == IF q = <<>> THEN S ELSE RunFrame(Tail(q), RunCallback(Head(q), S))

\* what running the requested callbacks does to the engine's variables
FrameEffect ==
  RunFrame(rafQueue, [dom |-> dom, ms |-> morphStates, pm |-> pendingMorph,
                      pe |-> pendingElement, ph |-> pendingHtml, patched |-> 0,
                      lw |-> lastWhole])

\* the browser runs the requested animation frame callbacks
AnimationFrame ==
  /\ rafQueue # <<>>
  /\ dom' = FrameEffect.dom
  /\ morphStates' = FrameEffect.ms
  /\ lastWhole' = FrameEffect.lw
  /\ pendingMorph' = FrameEffect.pm
  /\ pendingElement' = FrameEffect.pe
  /\ pendingHtml' = FrameEffect.ph
  /\ rafQueue' = <<>>
  /\ UNCHANGED cacheVars
  /\ lastOp' = Op("frame", pendingElement, pendingHtml, FrameEffect.patched, FALSE, Null,
                  {}, FALSE)

\* ------------------------------------------------------------------------
\* Reset
\* ------------------------------------------------------------------------

Deleted_All(ms, c) == [x \in Containers |-> NoState]

Deleted_KeepChildHashes(ms, c) ==
  [ms EXCEPT ![c] = [getState(ms, c) EXCEPT !.contentHash = EmptyHash]]

\* morphStates.delete(container)
Deleted(ms, c) == [ms EXCEPT ![c] = NoState]

\* the tail of resetMorphCache: cancel any pending morph
CancelAll ==
  /\ rafQueue' = CancelPending(rafQueue, pendingMorph)
  /\ pendingMorph' = NoHandle
  /\ pendingElement' = Null
  /\ pendingHtml' = NullHtml

resetMorphCache_KeepPending(c) ==
  /\ morphStates' = [morphStates EXCEPT ![c] = NoState]
  /\ UNCHANGED <<dom, lastWhole, pendingVars, cacheVars>>
  /\ lastOp' = Op("reset", c, NullHtml, 0, FALSE, Cancelled, {}, FALSE)

\* resetMorphCache(container)
resetMorphCache(c) ==
  /\ morphStates' = Deleted(morphStates, c)
  /\ CancelAll
  /\ UNCHANGED <<dom, lastWhole, cacheVars>>
  /\ lastOp' = Op("reset", c, NullHtml, 0, FALSE, Cancelled, {}, FALSE)

\* resetMorphCache()
resetMorphCacheAll ==
  /\ CancelAll
  /\ UNCHANGED <<dom, morphStates, lastWhole, cacheVars>>
  /\ lastOp' = Op("resetAll", Null, NullHtml, 0, FALSE, Cancelled, {}, FALSE)

\* resetElementMorphState(container)
resetElementMorphState(c) ==
  /\ morphStates' = Deleted(morphStates, c)
  /\ UNCHANGED <<dom, pendingVars, lastWhole, cacheVars>>
  /\ lastOp' = Op("resetElement", c, NullHtml, 0, FALSE, Null, {}, FALSE)

\* ------------------------------------------------------------------------
\* Element-level optimized morph
\* ------------------------------------------------------------------------

\* getMorphStats(container): getState creates the entry when missing
getMorphStats(c) ==
  /\ morphStates' = WithState(morphStates, c)
  /\ UNCHANGED <<dom, pendingVars, lastWhole, cacheVars>>
  /\ lastOp' = Op("stats", c, NullHtml, 0, FALSE, Null, {}, FALSE)

Bump(stats, field) == [stats EXCEPT ![field] = @ + 1]

HashChanged_Missing(prevHashes, k, newHash) == k > Len(prevHashes)

HashChanged_Always(prevHashes, k, newHash) == TRUE

\* `state.prevHashes[i] !== newHash` (position k = i + 1; a missing entry is
\* undefined, which differs from every hash)
HashChanged(prevHashes, k, newHash) ==
  k > Len(prevHashes) \/ prevHashes[k] # newHash

ElementStep_NoHashOnSkip(acc, k, newKids, prevHashes) ==
  LET newHash == HashOf[newKids[k]]
  IN  IF k > Len(newKids) THEN acc
      ELSE IF k > Len(acc.children)
        THEN [acc EXCEPT !.newHashes = Append(@, newHash),
                         !.children = Append(@, MkNode(newKids[k])),
                         !.stats = Bump(@, "added")]
      ELSE IF k > Len(prevHashes) \/ prevHashes[k] # newHash
        THEN [acc EXCEPT !.newHashes = Append(@, newHash),
                         !.children[k] = MorphOuter(@, newKids[k]),
                         !.stats = Bump(@, "updated"),
                         !.touched = @ \cup {k}]
      ELSE [acc EXCEPT !.stats = Bump(@, "skipped")]

\* the body of `for (let i = 0; i < maxLen; i++)` at position k = i + 1, on
\* acc = [children, newHashes, stats, touched]; children is the live
\* container.children
ElementStep(acc, k, newKids, prevHashes) ==
  LET hasOld == k <= Len(acc.children)
      hasNew == k <= Len(newKids)
      newHash == HashOf[newKids[k]]
  IN  IF ~hasNew THEN acc
      ELSE IF ~hasOld
        THEN [acc EXCEPT !.newHashes = Append(@, newHash),
                         !.children = Append(@, MkNode(newKids[k])),
                         !.stats = Bump(@, "added")]
      ELSE IF HashChanged(prevHashes, k, newHash)
        THEN [acc EXCEPT !.newHashes = Append(@, newHash),
                         !.children[k] = MorphOuter(@, newKids[k]),
                         !.stats = Bump(@, "updated"),
                         !.touched = @ \cup {k}]
      ELSE [acc EXCEPT !.newHashes = Append(@, newHash),
                       !.stats = Bump(@, "skipped")]

RECURSIVE ElementLoop(_, _, _, _, _)
ElementLoop(acc, k, maxLen, newKids, prevHashes) ==
  IF k > maxLen THEN acc
  ELSE ElementLoop(ElementStep(acc, k, newKids, prevHashes), k + 1, maxLen,
                   newKids, prevHashes)

RECURSIVE RemoveExtra_VetoAware(_, _)
RemoveExtra_VetoAware(acc, newLen) ==
  IF Len(acc.children) > newLen /\ ~acc.children[Len(acc.children)].prot
    THEN RemoveExtra_VetoAware([acc EXCEPT !.children = SubSeq(@, 1, Len(@) - 1),
                                           !.stats = Bump(@, "removed")], newLen)
    ELSE acc

RECURSIVE RemoveExtra(_, _)
\* `while (container.children.length > newLen) container.lastElementChild?.remove()`
RemoveExtra(acc, newLen) ==
  IF Len(acc.children) > newLen
    THEN RemoveExtra([acc EXCEPT !.children = SubSeq(@, 1, Len(@) - 1),
                                 !.stats = Bump(@, "removed")], newLen)
    ELSE acc

Max(a, b) == IF a >= b THEN a ELSE b

Min(a, b) == IF a <= b THEN a ELSE b

\* the container's children, hashes, stats and patched positions after
\* morphContentOptimized on children `old` with state `state`
Optimized(old, state, m) ==
  LET newKids == ChildrenOf[m]
      oldLen == Len(old)
      newLen == Len(newKids)
      start == [children |-> old, newHashes |-> <<>>, stats |-> ZeroStats, touched |-> {}]
  IN  RemoveExtra(ElementLoop(start, 1, Max(oldLen, newLen), newKids, state.prevHashes),
                  newLen)

morphContentOptimized_SharedStats(c, m) ==
  LET state == getState(morphStates, c)
      r == Optimized(dom[c], state, m)
      ret == r.stats.updated > 0 \/ r.stats.added > 0 \/ r.stats.removed > 0
  IN  /\ dom' = [dom EXCEPT ![c] = r.children]
      /\ morphStates' = [x \in Containers |->
                           IF x = c
                             THEN [state EXCEPT !.prevHashes = r.newHashes,
                                                !.lastStats = r.stats]
                             ELSE IF morphStates[x] = NoState THEN NoState
                             ELSE [morphStates[x] EXCEPT !.lastStats = r.stats]]
      /\ UNCHANGED <<pendingVars, lastWhole, cacheVars>>
      /\ lastOp' = Op("children", c, m, 0, FALSE, Null, r.touched, ret)

\* morphContentOptimized(container, newHtml)
morphContentOptimized(c, m) ==
  LET state == getState(morphStates, c)
      r == Optimized(dom[c], state, m)
      ret == r.stats.updated > 0 \/ r.stats.added > 0 \/ r.stats.removed > 0
  IN  /\ dom' = [dom EXCEPT ![c] = r.children]
      /\ morphStates' = [morphStates EXCEPT
                           ![c] = [state EXCEPT !.prevHashes = r.newHashes,
                                                !.lastStats = r.stats]]
      /\ UNCHANGED <<pendingVars, lastWhole, cacheVars>>
      /\ lastOp' = Op("children", c, m, 0, FALSE, Null, r.touched, ret)

\* ------------------------------------------------------------------------
\* The host changing a container's tree by hand
\* ------------------------------------------------------------------------

\* container.innerHTML = html
HostSetInnerHTML(c, m) ==
  /\ dom' = [dom EXCEPT ![c] = NodesOf(ChildrenOf[m])]
  /\ UNCHANGED <<morphStates, pendingVars, lastOp, lastWhole, cacheVars>>

Protected(children) == {k \in 1..Len(children) : children[k].prot}

\* the host puts a data-morph-ignore node first or last in a container that
\* has none
HostInsertSentinel(c) ==
  /\ Protected(dom[c]) = {}
  /\ \/ dom' = [dom EXCEPT ![c] = <<Sentinel>> \o @]
     \/ dom' = [dom EXCEPT ![c] = Append(@, Sentinel)]
  /\ UNCHANGED <<morphStates, pendingVars, lastOp, lastWhole, cacheVars>>

\* ------------------------------------------------------------------------
\* LRUCache: one partition of the CacheManager
\* ------------------------------------------------------------------------

\* maxEntries and maxBytes of the model's partitions
MaxEntries == 3

MaxBytes == 6

\* CacheManager: memoryBudget, ten times the maxBytes of the morph cache
memoryBudget == MaxBytes * 10

\* constructor(maxEntries, maxBytes)
maxEntries(p) == MaxEntries

\* new LRUCache(.., memoryBudget * 0.25) for renderCacheSync and
\* memoryBudget * 0.1 for morphCache; the sizes are integers, for which
\* exceeding the product is exceeding its integer part
maxBytes(p) ==
  IF p = "morph" THEN (memoryBudget * 10) \div 100 ELSE (memoryBudget * 25) \div 100

\* the keys, with the empty string among them
Keys == {"", "a", "b", "c"}

\* the values: strings of length 0 and 1
Values == {<<>>, <<120>>}

\* the sizeBytes arguments: none, one that fits the partition, one above its
\* maxBytes
SizeHints == {NoHint, 3, MaxBytes + 1}

\* the key is falsy (`!key`): the empty string
Falsy(key) == key = ""

\* estimateSize(value), for the string values every partition holds
estimateSize(value) == Len(value) * 2

\* the keys of the Map, in insertion order
KeysOf(c) == [k \in 1..Len(c.cache) |-> c.cache[k].key]

LiveKeys(c) == {c.cache[k].key : k \in 1..Len(c.cache)}

\* this.cache.has(key)
Has(c, key) == key \in LiveKeys(c)

\* this.cache.get(key)
ValueOf(c, key) ==
  IF Has(c, key)
    THEN (CHOOSE e \in {c.cache[k] : k \in 1..Len(c.cache)} : e.key = key).value
    ELSE Undefined

\* this.sizeEstimates.get(key) ?? 0
SizeOf(c, key) == IF key \in DOMAIN c.sizeEstimates THEN c.sizeEstimates[key] ELSE 0

\* a Map without the key, the other entries in their order
MapDelete(entries, key) == SelectSeq(entries, LAMBDA e : e.key # key)

Remove_KeepBytes(c, key) ==
  [cache |-> MapDelete(c.cache, key),
   sizeEstimates |-> Table([k \in DOMAIN c.sizeEstimates \ {key} |-> c.sizeEstimates[k]]),
   totalBytes |-> c.totalBytes]

\* this.totalBytes -= this.sizeEstimates.get(key) ?? 0;
\* this.cache.delete(key); this.sizeEstimates.delete(key)
Remove(c, key) ==
  [cache |-> MapDelete(c.cache, key),
   sizeEstimates |-> Table([k \in DOMAIN c.sizeEstimates \ {key} |-> c.sizeEstimates[k]]),
   totalBytes |-> c.totalBytes - SizeOf(c, key)]

Insert_First(c, key, value, size) ==
  [cache |-> <<[key |-> key, value |-> value]>> \o c.cache,
   sizeEstimates |-> Table([k \in DOMAIN c.sizeEstimates \cup {key} |->
                              IF k = key THEN size ELSE c.sizeEstimates[k]]),
   totalBytes |-> c.totalBytes + size]

\* this.cache.set(key, value); this.sizeEstimates.set(key, size);
\* this.totalBytes += size, for a key the cache does not hold
Insert(c, key, value, size) ==
  [cache |-> Append(c.cache, [key |-> key, value |-> value]),
   sizeEstimates |-> Table([k \in DOMAIN c.sizeEstimates \cup {key} |->
                              IF k = key THEN size ELSE c.sizeEstimates[k]]),
   totalBytes |-> c.totalBytes + size]

\* the live keys of the history, in their order
Restrict(order, live) == SelectSeq(order, LAMBDA k : k \in live)

\* the history with the key used last
Touch(order, key) == Append(SelectSeq(order, LAMBDA k : k # key), key)

\* what the history records of a call: the operation, its cache and
\* arguments, the value it returned (ret; Undefined when it returns none),
\* the boolean it returned (found), and the keys of the cache before the call
CacheOp(op, p, key, value, hint, n, ret, found) ==
  [op |-> op, p |-> p, key |-> key, value |-> value, hint |-> hint, n |-> n, ret |-> ret,
   found |-> found, before |-> KeysOf(caches[p])]

Promote_Not(c, key) == c

\* get: `this.cache.delete(key); this.cache.set(key, value)`
Promote(c, key) ==
  [c EXCEPT !.cache = Append(MapDelete(c.cache, key), [key |-> key, value |-> ValueOf(c, key)])]

\* get(key)
get(p, key) ==
  LET c == caches[p]
      value == ValueOf(c, key)
  IN  /\ ~hung
      /\ caches' = [caches EXCEPT ![p] = IF value # Undefined THEN Promote(c, key) ELSE c]
      /\ recency' = [recency EXCEPT ![p] = IF value # Undefined THEN Touch(@, key) ELSE @]
      /\ lastCache' = CacheOp("get", p, key, Undefined, NoHint, 0, value, value # Undefined)
      /\ UNCHANGED <<hung, morphVars>>

\* the condition of the while loop of set
NeedsEviction(c, size, p) ==
  (Len(c.cache) >= maxEntries(p) \/ c.totalBytes + size > maxBytes(p)) /\ Len(c.cache) > 0

RECURSIVE EvictLoop(_, _, _)
\* the while loop of set: the cache when the loop is left, or the cache on
\* which the loop runs for ever (hung): an iteration whose firstKey is falsy
\* changes nothing
EvictLoop(c, size, p) ==
  IF NeedsEviction(c, size, p)
    THEN LET firstKey == c.cache[1].key
         IN  IF Falsy(firstKey)
               THEN [c |-> c, hung |-> TRUE]
               ELSE EvictLoop(Remove(c, firstKey), size, p)
    ELSE [c |-> c, hung |-> FALSE]

\* set(key, value, sizeBytes)
set(p, key, value, hint) ==
  LET c0 == caches[p]
      c1 == IF Has(c0, key) THEN Remove(c0, key) ELSE c0
      size == IF hint = NoHint THEN estimateSize(value) ELSE hint
      loop == EvictLoop(c1, size, p)
      c2 == IF loop.hung THEN loop.c ELSE Insert(loop.c, key, value, size)
  IN  /\ ~hung
      /\ caches' = [caches EXCEPT ![p] = c2]
      /\ hung' = loop.hung
      /\ recency' = [recency EXCEPT ![p] =
                       Restrict(IF loop.hung THEN @ ELSE Touch(@, key), LiveKeys(c2))]
      /\ lastCache' = CacheOp("set", p, key, value, hint, 0, Undefined, FALSE)
      /\ UNCHANGED morphVars

\* has(key)
has(p, key) ==
  /\ ~hung
  /\ lastCache' = CacheOp("has", p, key, Undefined, NoHint, 0, Undefined, Has(caches[p], key))
  /\ UNCHANGED <<caches, hung, recency, morphVars>>

clear_Everything(p) ==
  /\ ~hung
  /\ caches' = [q \in Partitions |-> EmptyCache]
  /\ recency' = [q \in Partitions |-> <<>>]
  /\ lastCache' = CacheOp("clear", p, "", Undefined, NoHint, 0, Undefined, FALSE)
  /\ UNCHANGED <<hung, morphVars>>

\* clear()
clear(p) ==
  /\ ~hung
  /\ caches' = [caches EXCEPT ![p] = EmptyCache]
  /\ recency' = [recency EXCEPT ![p] = <<>>]
  /\ lastCache' = CacheOp("clear", p, "", Undefined, NoHint, 0, Undefined, FALSE)
  /\ UNCHANGED <<hung, morphVars>>

RECURSIVE EvictFirst(_, _)
\* the for loop of evictOldest: the iterator yields the keys oldest first,
\* and the loop is left when it is done or yields a falsy key
EvictFirst(c, count) ==
  IF count <= 0 \/ c.cache = <<>> \/ Falsy(c.cache[1].key) THEN c
  ELSE EvictFirst(Remove(c, c.cache[1].key), count - 1)

\* evictOldest(count)
evictOldest(p, count) ==
  LET c == EvictFirst(caches[p], count)
  IN  /\ ~hung
      /\ caches' = [caches EXCEPT ![p] = c]
      /\ recency' = [recency EXCEPT ![p] = Restrict(@, LiveKeys(c))]
      /\ lastCache' = CacheOp("evictOldest", p, "", Undefined, NoHint, count, Undefined, FALSE)
      /\ UNCHANGED <<hung, morphVars>>

\* get stats(): { entries, estimatedBytes }
cacheStats(p) ==
  /\ ~hung
  /\ lastCache' = CacheOp("stats", p, "", Undefined, NoHint, 0,
                          <<Len(caches[p].cache), caches[p].totalBytes>>, FALSE)
  /\ UNCHANGED <<caches, hung, recency, morphVars>>

\* ------------------------------------------------------------------------
\* CacheManager
\* ------------------------------------------------------------------------

RECURSIVE SumBytes(_, _)
\* stats.total.estimatedBytes: the sum of the caches' totalBytes
SumBytes(cs, ps) ==
  IF ps = {} THEN 0
  ELSE LET p == CHOOSE x \in ps : TRUE
       IN  cs[p].totalBytes + SumBytes(cs, ps \ {p})

OverBudget_Always(cs) == TRUE

\* total.estimatedBytes > this.memoryBudget * 0.9
OverBudget(cs) == SumBytes(cs, Partitions) * 10 > memoryBudget * 9

\* Math.ceil(cache.stats.entries * 0.25)
targetEvictions(c) == (Len(c.cache) + 3) \div 4

ManagerOp(op, over) == [NoCacheOp EXCEPT !.op = op, !.found = over]

\* trimIfNeeded(): found records whether the budget test passed
trimIfNeeded ==
  LET over == OverBudget(caches)
      trimmed == [p \in Partitions |->
                    IF over THEN EvictFirst(caches[p], targetEvictions(caches[p]))
                    ELSE caches[p]]
  IN  /\ ~hung
      /\ caches' = trimmed
      /\ recency' = [p \in Partitions |-> Restrict(recency[p], LiveKeys(trimmed[p]))]
      /\ lastCache' = ManagerOp("trimIfNeeded", over)
      /\ UNCHANGED <<hung, morphVars>>

\* clearAll()
clearAll ==
  /\ ~hung
  /\ caches' = [p \in Partitions |-> EmptyCache]
  /\ recency' = [p \in Partitions |-> <<>>]
  /\ lastCache' = ManagerOp("clearAll", FALSE)
  /\ UNCHANGED <<hung, morphVars>>


\* ------------------------------------------------------------------------
\* Specifications
\* ------------------------------------------------------------------------

\* ------------------------------------------------------------------------
\* MarkdownViewer
\* ------------------------------------------------------------------------

\* the intervals are held in units of 1/Resolution ms: the rounding of the
\* doubles is the rounding to this grid
Resolution == 10

\* the clock stops MaxTime ms after Epoch
MaxTime == 75

\* at most MaxRafs requested callbacks of the viewer wait for the browser
MaxRafs == 2

\* the element with class "markdown" that the viewer renders
Host == "c1"

\* the values of the text property
Texts == {"", "bC"}

\* the paragraph that holds the cursor's span while streaming
CursorNode == NodeB

\* _renderedContent: the markup of baseText, with the cursor while streaming;
\* '' for an empty source. The renderer and its caches are a function of the
\* source
Render(baseText, streaming) ==
  LET body == IF baseText = "" THEN <<>> ELSE NodeA
  IN  IF streaming THEN body \o CursorNode ELSE body

\* (idealThrottle - currentThrottle) * smoothingFactor, to the nearest unit
Smooth_Overshoot(delta) == (delta * 13 + 5) \div 10

Smooth(delta) == (delta * 3 + 5) \div 10

\* morphTime / targetMorphBudget
idealThrottle(morphTime) == morphTime * 4 * Resolution

\* this._adaptiveThrottleMs || baseThrottle
currentThrottle(adaptive, baseThrottle) ==
  IF adaptive # 0 THEN adaptive ELSE baseThrottle * Resolution

minThrottle_None(baseThrottle) == 0

\* const minThrottle = baseThrottle
minThrottle(baseThrottle) == baseThrottle * Resolution

\* Math.max(baseThrottle * 4, 200)
maxThrottle(baseThrottle) == Max(baseThrottle * 4, 200) * Resolution

\* _adjustAdaptiveThrottle(): the new _adaptiveThrottleMs
adjustAdaptiveThrottle(baseThrottle, adaptive, morphTime) ==
  LET cur == currentThrottle(adaptive, baseThrottle)
      newThrottle == cur + Smooth(idealThrottle(morphTime) - cur)
  IN  Max(minThrottle(baseThrottle), Min(maxThrottle(baseThrottle), newThrottle))

\* get _effectiveThrottleMs
effectiveThrottleMs == currentThrottle(adaptiveThrottleMs, throttleMs)

\* now - this._lastThrottleTime >= effectiveThrottle
Elapsed == (now - lastThrottleTime) * Resolution >= effectiveThrottleMs

Immediate_Never(streaming) == FALSE

\* if (!this.isStreaming)
Immediate(streaming) == ~streaming

ShouldSchedule_Always(scheduled) == TRUE

\* else if (!this._rafScheduled)
ShouldSchedule(scheduled) == ~scheduled

\* what _updateThrottledText leaves and whether it assigned _throttledText
\* and called requestAnimationFrame
Throttled(t, last, scheduled, applied, requested) ==
  [text |-> t, last |-> last, scheduled |-> scheduled, applied |-> applied,
   requested |-> requested]

\* _updateThrottledText()
updateThrottledText ==
  IF Immediate(isStreaming)
    THEN Throttled(text, lastThrottleTime, FALSE, TRUE, FALSE)
  ELSE IF Elapsed
    THEN Throttled(text, now, rafScheduled, TRUE, FALSE)
  ELSE IF ShouldSchedule(rafScheduled)
    THEN Throttled(throttledText, lastThrottleTime, TRUE, FALSE, TRUE)
  ELSE Throttled(throttledText, lastThrottleTime, rafScheduled, FALSE, FALSE)

\* the history after a step: the fields given, the rest carried over
ViewOp(op, T, gate, start, repeat, rose) ==
  [op |-> op, applied |-> T.applied, requested |-> T.requested, start |-> start,
   content |-> gate /\ "text" \in changed,
   schedText |-> IF T.requested THEN text ELSE lastView.schedText,
   events |-> IF T.requested THEN 1
              ELSE IF gate /\ isStreaming /\ ~T.applied THEN Min(lastView.events + 1, 2)
              ELSE lastView.events,
   sessionApplied |-> IF gate /\ ~isStreaming THEN FALSE
                      ELSE IF T.applied /\ isStreaming THEN TRUE
                      ELSE lastView.sessionApplied,
   repeat |-> repeat, rose |-> rose]

\* the host assigns a property: Lit records a changed one for the next update
NoteChanged(name) == changed' = changed \cup {name}

\* viewer.text = t
SetText(t) ==
  /\ t # text
  /\ text' = t
  /\ NoteChanged("text")
  /\ UNCHANGED <<isStreaming, throttleMs, oldStreaming, throttledText, hasStreamed,
                 lastThrottleTime, rafScheduled, adaptiveThrottleMs, lastMorphDuration,
                 rendered, now, viewerRafs, lastView, morphVars, cacheVars>>

\* viewer.isStreaming = b
SetStreaming(b) ==
  /\ b # isStreaming
  /\ isStreaming' = b
  /\ NoteChanged("isStreaming")
  /\ oldStreaming' = IF "isStreaming" \in changed THEN oldStreaming ELSE isStreaming
  /\ UNCHANGED <<text, throttleMs, throttledText, hasStreamed,
                 lastThrottleTime, rafScheduled, adaptiveThrottleMs, lastMorphDuration,
                 rendered, now, viewerRafs, lastView, morphVars, cacheVars>>

\* viewer.throttleMs = ms
SetThrottleMs(ms) ==
  /\ ms # throttleMs
  /\ throttleMs' = ms
  /\ NoteChanged("throttleMs")
  /\ UNCHANGED <<text, isStreaming, oldStreaming, throttledText, hasStreamed,
                 lastThrottleTime, rafScheduled, adaptiveThrottleMs, lastMorphDuration,
                 rendered, now, viewerRafs, lastView, morphVars, cacheVars>>

\* Lit's update of the element: willUpdate(changedProperties), render() and
\* updated(), with d the ms measured around morphContentOptimized
performUpdate(d) ==
  LET start == "isStreaming" \in changed /\ isStreaming
      streamed == hasStreamed \/ start
      gate == "text" \in changed \/ "isStreaming" \in changed
      T == IF gate THEN updateThrottledText
           ELSE Throttled(throttledText, lastThrottleTime, rafScheduled, FALSE, FALSE)
      useSyncStrategy == isStreaming \/ streamed
      template == IF useSyncStrategy THEN "sync" ELSE "static"
      replaced == rendered # template
      old == IF replaced THEN <<>> ELSE dom[Host]
      ms == IF replaced THEN Deleted(morphStates, Host) ELSE morphStates
      state == getState(ms, Host)
      r == Optimized(old, state, Render(T.text, TRUE))
      ret == r.stats.updated > 0 \/ r.stats.added > 0 \/ r.stats.removed > 0
      adjusted == adjustAdaptiveThrottle(throttleMs, adaptiveThrottleMs, d)
  IN  /\ changed # {}
      /\ T.requested => viewerRafs < MaxRafs
      /\ changed' = {}
      /\ oldStreaming' = isStreaming
      /\ hasStreamed' = streamed
      /\ throttledText' = T.text
      /\ lastThrottleTime' = T.last
      /\ rafScheduled' = T.scheduled
      /\ viewerRafs' = IF T.requested THEN viewerRafs + 1 ELSE viewerRafs
      /\ rendered' = template
      /\ UNCHANGED <<text, isStreaming, throttleMs, now, cacheVars>>
      /\ IF useSyncStrategy /\ isStreaming
           THEN /\ lastMorphDuration' = d
                /\ adaptiveThrottleMs' = adjusted
                /\ dom' = [dom EXCEPT ![Host] = r.children]
                /\ morphStates' = [ms EXCEPT
                                     ![Host] = [state EXCEPT !.prevHashes = r.newHashes,
                                                             !.lastStats = r.stats]]
                /\ UNCHANGED <<pendingVars, lastWhole>>
                /\ lastOp' = Op("children", Host, Render(T.text, TRUE), 0, FALSE, Null,
                                r.touched, ret)
                /\ lastView' = ViewOp("update", T, gate, start,
                                       adaptiveThrottleMs # 0 /\ d = lastMorphDuration,
                                       adjusted > effectiveThrottleMs)
         ELSE IF useSyncStrategy
           THEN /\ UNCHANGED <<lastMorphDuration, adaptiveThrottleMs>>
                /\ morphContent(Host, Render(text, FALSE))
                /\ lastView' = ViewOp("update", T, gate, start, FALSE, FALSE)
         ELSE /\ UNCHANGED <<lastMorphDuration, adaptiveThrottleMs>>
              /\ dom' = [dom EXCEPT ![Host] = NodesOf(ChildrenOf[Render(text, FALSE)])]
              /\ morphStates' = ms
              /\ UNCHANGED <<pendingVars, lastWhole, lastOp>>
              /\ lastView' = ViewOp("update", T, gate, start, FALSE, FALSE)

\* the callback _updateThrottledText handed to requestAnimationFrame; the
\* browser runs it once no update of the element is pending
throttleFrame ==
  LET applies == rafScheduled /\ isStreaming
      T == Throttled(IF applies THEN text ELSE throttledText,
                     IF applies THEN now ELSE lastThrottleTime, FALSE, applies, FALSE)
  IN  /\ viewerRafs > 0
      /\ changed = {}
      /\ viewerRafs' = viewerRafs - 1
      /\ throttledText' = T.text
      /\ changed' = IF T.text # throttledText THEN {"throttledText"} ELSE {}
      /\ lastThrottleTime' = T.last
      /\ rafScheduled' = FALSE
      /\ lastView' = ViewOp("frame", T, FALSE, FALSE, FALSE, FALSE)
      /\ UNCHANGED <<text, isStreaming, throttleMs, oldStreaming, hasStreamed,
                     adaptiveThrottleMs, lastMorphDuration, rendered, now, morphVars,
                     cacheVars>>

\* disconnectedCallback()
disconnectedCallback ==
  /\ rafScheduled' = FALSE
  /\ lastView' = ViewOp("disconnect",
                        Throttled(throttledText, lastThrottleTime, FALSE, FALSE, FALSE),
                        FALSE, FALSE, FALSE, FALSE)
  /\ UNCHANGED <<text, isStreaming, throttleMs, changed, oldStreaming, throttledText,
                 hasStreamed, lastThrottleTime, adaptiveThrottleMs, lastMorphDuration,
                 rendered, now, viewerRafs, morphVars, cacheVars>>

\* reset()
reset ==
  /\ hasStreamed' = FALSE
  /\ throttledText' = ""
  /\ changed' = changed \cup (IF hasStreamed THEN {"hasStreamed"} ELSE {})
                        \cup (IF throttledText # "" THEN {"throttledText"} ELSE {})
  /\ adaptiveThrottleMs' = 0
  /\ lastMorphDuration' = 0
  /\ resetMorphCacheAll
  /\ lastView' = ViewOp("reset",
                        Throttled("", lastThrottleTime, rafScheduled, FALSE, FALSE),
                        FALSE, FALSE, FALSE, FALSE)
  /\ UNCHANGED <<text, isStreaming, throttleMs, oldStreaming, lastThrottleTime,
                 rafScheduled, rendered, now, viewerRafs>>

\* the clock advances by dt ms
Tick(dt) ==
  /\ changed = {}
  /\ now + dt <= Epoch + MaxTime
  /\ now' = now + dt
  /\ UNCHANGED <<text, isStreaming, throttleMs, changed, oldStreaming, throttledText,
                 hasStreamed, lastThrottleTime, rafScheduled, adaptiveThrottleMs,
                 lastMorphDuration, rendered, viewerRafs, lastView, morphVars, cacheVars>>

\* the markup strings of at most one top-level node
SmallMarkups == {Concat(ns) : ns \in NodeSeqs(1)}

Sync ==
  \E c \in Containers, m \in SmallMarkups : morphContentSync(c, m) /\ UNCHANGED viewerVars

Deferred ==
  \E c \in Containers, m \in SmallMarkups : morphContent(c, m) /\ UNCHANGED viewerVars

Reset ==
  \E c \in Containers : resetMorphCache(c) /\ UNCHANGED viewerVars

\* the browser's frame and resetMorphCache() with the viewer left alone
Frame == AnimationFrame /\ UNCHANGED viewerVars

ResetAll == resetMorphCacheAll /\ UNCHANGED viewerVars

\* what the host writes into a container between whole-tree morphs
HostMarkups == {<<>>, NodeB}

HostSet ==
  \E c \in Containers, m \in HostMarkups : HostSetInnerHTML(c, m) /\ UNCHANGED viewerVars

\* the whole-tree engine on two containers
NextWhole ==
  \/ Sync
  \/ Deferred
  \/ Frame
  \/ Reset
  \/ ResetAll
  \/ HostSet

SpecWhole == Init /\ [][NextWhole]_vars

\* the element-level engine on one container, with every markup string
One == {"c1"}

Children1 ==
  \E c \in One, m \in Markups : morphContentOptimized(c, m) /\ UNCHANGED viewerVars

ResetElement1 ==
  \E c \in One : resetElementMorphState(c) /\ UNCHANGED viewerVars

Stats1 ==
  \E c \in One : getMorphStats(c) /\ UNCHANGED viewerVars

HostSet1 ==
  \E c \in One, m \in SmallMarkups : HostSetInnerHTML(c, m) /\ UNCHANGED viewerVars

HostSentinel1 ==
  \E c \in One : HostInsertSentinel(c) /\ UNCHANGED viewerVars

NextChildren ==
  \/ Children1
  \/ ResetElement1
  \/ Stats1
  \/ HostSet1
  \/ HostSentinel1

SpecChildren == Init /\ [][NextChildren]_vars

\* both engines and resetMorphCache on two containers, on two markup strings
TwoMarkups == {NodeA, NodeB \o NodeA}

SyncM ==
  \E c \in Containers, m \in TwoMarkups : morphContentSync(c, m) /\ UNCHANGED viewerVars

DeferredM ==
  \E c \in Containers, m \in TwoMarkups : morphContent(c, m) /\ UNCHANGED viewerVars

ChildrenM ==
  \E c \in Containers, m \in TwoMarkups : morphContentOptimized(c, m) /\ UNCHANGED viewerVars

NextMixed ==
  \/ SyncM
  \/ DeferredM
  \/ Frame
  \/ ChildrenM
  \/ Reset

SpecMixed == Init /\ [][NextMixed]_vars

\* the element-level engine on two containers
PairMarkups == {<<>>, NodeA, NodeA \o NodeB, NodeB \o NodeA}

ChildrenP ==
  \E c \in Containers, m \in PairMarkups : morphContentOptimized(c, m) /\ UNCHANGED viewerVars

StatsP ==
  \E c \in Containers : getMorphStats(c) /\ UNCHANGED viewerVars

NextPair ==
  \/ ChildrenP
  \/ StatsP

SpecPair == Init /\ [][NextPair]_vars

\* one cache of the CacheManager under every call
OnePartition == {"morph"}

Get ==
  \E p \in OnePartition, key \in Keys : get(p, key) /\ UNCHANGED viewerVars

Set == \E p \in OnePartition, key \in Keys, value \in Values, hint \in SizeHints :
         set(p, key, value, hint) /\ UNCHANGED viewerVars

HasKey ==
  \E p \in OnePartition, key \in Keys : has(p, key) /\ UNCHANGED viewerVars

Clear ==
  \E p \in OnePartition : clear(p) /\ UNCHANGED viewerVars

EvictOldest ==
  \E p \in OnePartition, count \in 0..(MaxEntries + 1) : evictOldest(p, count) /\ UNCHANGED viewerVars

Stats ==
  \E p \in OnePartition : cacheStats(p) /\ UNCHANGED viewerVars

NextCache ==
  \/ Get
  \/ Set
  \/ HasKey
  \/ Clear
  \/ EvictOldest
  \/ Stats

SpecCache == Init /\ [][NextCache]_vars

\* two caches of the CacheManager under every call
ManagerKeys == {"", "a"}

Trim == trimIfNeeded /\ UNCHANGED viewerVars

ClearAll == clearAll /\ UNCHANGED viewerVars

\* the sizeBytes arguments: none, and one as large as the whole budget
ManagerHints == {NoHint, memoryBudget}

GetM ==
  \E p \in Partitions, key \in ManagerKeys : get(p, key) /\ UNCHANGED viewerVars

SetM == \E p \in Partitions, key \in ManagerKeys, value \in Values, hint \in ManagerHints :
          set(p, key, value, hint) /\ UNCHANGED viewerVars

HasM ==
  \E p \in Partitions, key \in ManagerKeys : has(p, key) /\ UNCHANGED viewerVars

ClearM ==
  \E p \in Partitions : clear(p) /\ UNCHANGED viewerVars

EvictOldestM ==
  \E p \in Partitions, count \in 0..2 : evictOldest(p, count) /\ UNCHANGED viewerVars

NextManager ==
  \/ GetM
  \/ SetM
  \/ HasM
  \/ ClearM
  \/ EvictOldestM
  \/ Trim
  \/ ClearAll

SpecManager == Init /\ [][NextManager]_vars

\* the throttle of the viewer under content events, frames and the clock
ThrottleDurations == {0}

TickSteps == {25, 50}

\* the host assigns one property between two updates
TextT == changed = {} /\ \E t \in Texts : SetText(t)

StreamingT == changed = {} /\ \E b \in BOOLEAN : SetStreaming(b)

UpdateT == \E d \in ThrottleDurations : performUpdate(d)

TickT == \E dt \in TickSteps : Tick(dt)

NextThrottle ==
  \/ TextT
  \/ StreamingT
  \/ UpdateT
  \/ throttleFrame
  \/ Frame
  \/ disconnectedCallback
  \/ TickT

SpecThrottle == Init /\ [][NextThrottle]_vars

\* the throttle with the browser's scheduling: the update Lit requested runs
\* (a microtask), and a requested animation frame callback runs at one of the
\* frames at which no update is pending; the host assigns a property while
\* fewer than MaxRafs callbacks wait
TextL == viewerRafs < MaxRafs /\ TextT

StreamingL == viewerRafs < MaxRafs /\ StreamingT

NextLive ==
  \/ TextL
  \/ StreamingL
  \/ UpdateT
  \/ throttleFrame
  \/ Frame
  \/ disconnectedCallback
  \/ TickT

SpecLive == Init /\ [][NextLive]_vars /\ WF_vars(UpdateT) /\ SF_vars(throttleFrame)

\* the pacing of the viewer under slow morphs, base intervals and sessions
PacingDurations == {0, 200}

BaseIntervals == {10, DefaultThrottleMs}

ThrottleMsP == changed = {} /\ \E ms \in BaseIntervals : SetThrottleMs(ms)

UpdateP == \E d \in PacingDurations : performUpdate(d)

NextPacing ==
  \/ TextT
  \/ StreamingT
  \/ ThrottleMsP
  \/ UpdateP
  \/ throttleFrame
  \/ reset

SpecPacing == Init /\ [][NextPacing]_vars

\* _adjustAdaptiveThrottle as a function of the base interval, the interval
\* and the duration measured
AdjustDurations == {0, 10, 40, 100}

\* updated(): this._lastMorphDuration = d; this._adjustAdaptiveThrottle()
measureAndAdjust(d) ==
  LET adjusted == adjustAdaptiveThrottle(throttleMs, adaptiveThrottleMs, d)
  IN  /\ lastMorphDuration' = d
      /\ adaptiveThrottleMs' = adjusted
      /\ lastView' = [lastView EXCEPT !.op = "adjust",
                                      !.repeat = adaptiveThrottleMs # 0 /\ d = lastMorphDuration,
                                      !.rose = adjusted > effectiveThrottleMs]
      /\ UNCHANGED <<text, isStreaming, throttleMs, changed, oldStreaming, throttledText,
                     hasStreamed, lastThrottleTime, rafScheduled, rendered, now,
                     viewerRafs, morphVars, cacheVars>>

MeasureA == \E d \in AdjustDurations : measureAndAdjust(d)

ThrottleMsA == \E ms \in BaseIntervals : SetThrottleMs(ms)

NextAdjust ==
  \/ MeasureA
  \/ ThrottleMsA

SpecAdjust == Init /\ [][NextAdjust]_vars

\* the adjustments with durations below a quarter of the base interval
\* measured again and again
MeasureLow ==
  \E d \in AdjustDurations : d * 4 < throttleMs /\ measureAndAdjust(d)

SpecRecover == Init /\ [][NextAdjust]_vars /\ WF_vars(MeasureLow)

\* the whole-tree morph with a patch primitive that may throw
SyncThrows ==
  \E c \in Containers, m \in SmallMarkups : morphContentSyncThrows(c, m) /\ UNCHANGED viewerVars

NextFailure ==
  \/ Sync
  \/ SyncThrows
  \/ Reset

SpecFailure == Init /\ [][NextFailure]_vars

\* simpleHash as a function of its argument
MaxLen == 5

\* the char codes of the strings hashed: 'b', U+4E2D and U+FFFF
HashCodes == {98, 20013, 65535}

HashInputs == UNION {[1..k -> HashCodes] : k \in 0..MaxLen}

\* a call simpleHash(str), its result kept in the history
hashCall(str) ==
  /\ lastOp' = Op("hash", Null, str, 0, FALSE, Null, {}, simpleHash(str))
  /\ UNCHANGED <<dom, morphStates, pendingVars, lastWhole, cacheVars>>

Hash == \E str \in HashInputs : hashCall(str) /\ UNCHANGED viewerVars

NextHash == Hash

SpecHash == Init /\ [][NextHash]_vars

\* ------------------------------------------------------------------------
\* Claims on the whole-tree morph (SpecWhole)
\* ------------------------------------------------------------------------

Unprotected(children) == SelectSeq(children, LAMBDA n : ~n.prot)

\* the container's tree is the one of the markup (nodes kept by the
\* beforeNodeRemoved veto aside)
Matches(children, m) == Unprotected(children) = NodesOf(ChildrenOf[m])

EngineUnchanged == UNCHANGED <<dom, morphStates, pendingVars>>

\* the step is a call of morphContentSync, of morphContent
SyncStep == lastOp'.op = "sync" /\ morphContentSync(lastOp'.c, lastOp'.m)

DeferredStep == lastOp'.op = "deferred" /\ morphContent(lastOp'.c, lastOp'.m)

\* C1: a morphContentSync call whose markup hashes to the container's stored
\* contentHash runs no morph and changes neither the tree nor any state of
\* the engine; so the second of two consecutive calls with identical markup
\* is a no-op, whatever the host did to the tree in between, and the two
\* calls together run the morph at most once.
C1_SecondSyncIsNoOp ==
  [][SyncStep =>
       LET c == lastOp'.c
           m == lastOp'.m
       IN  /\ (morphStates[c] # NoState /\ morphStates[c].contentHash = HashOf[m])
                => (lastOp'.patched = 0 /\ EngineUnchanged)
           /\ (lastOp.op = "sync" /\ lastOp.c = c /\ lastOp.m = m)
                => (lastOp'.patched = 0 /\ EngineUnchanged
                    /\ lastOp.patched + lastOp'.patched <= 1)]_vars

\* the second of two identical calls was skipped although the tree no longer
\* shows the markup
C1_Witness ==
  /\ lastOp.op = "sync" /\ lastOp.prev = "same" /\ lastOp.patched = 0
  /\ ~Matches(dom[lastOp.c], lastOp.m)

\* C2 as stated: a morphContentSync call with a markup string other than the
\* one of the last whole-tree morph of the container runs the morph, and the
\* tree then shows the markup, for every pair of distinct strings.
C2_ChangedNeverSkipped ==
  [][(SyncStep /\ lastOp'.was # NullHtml /\ lastOp'.was # lastOp'.m)
       => (lastOp'.patched = 1 /\ Matches(dom'[lastOp'.c], lastOp'.m))]_vars

\* C2 amended: a morphContentSync call whose markup hashes to another value
\* than the markup of the last whole-tree morph of the container runs the
\* morph, and the tree then shows the markup.  Strings of different lengths
\* always hash differently; strings of equal length may collide.
C2_ChangedHashNeverSkipped ==
  [][(SyncStep /\ lastOp'.was # NullHtml /\ HashOf[lastOp'.was] # HashOf[lastOp'.m])
       => (lastOp'.patched = 1 /\ Matches(dom'[lastOp'.c], lastOp'.m))]_vars

\* a call with another string of the same length has just morphed the tree
C2_Witness ==
  /\ lastOp.op = "sync" /\ lastOp.patched = 1
  /\ lastOp.was # NullHtml /\ Len(lastOp.was) = Len(lastOp.m)
  /\ HashOf[lastOp.was] # HashOf[lastOp.m]
  /\ Matches(dom[lastOp.c], lastOp.m)

\* C3 as stated: when the frame fires after a run of morphContent calls on one
\* container, the tree shows the markup of the last of these calls, and the
\* morph has run at most once.
C3_LastDeferredWins ==
  [][(AnimationFrame /\ lastOp.op = "deferred" /\ pendingElement = lastOp.c)
       => (Matches(dom'[lastOp.c], lastOp.m) /\ lastOp'.patched <= 1)]_vars

\* C4 as stated: a morphContent call that repeats the call before it, or
\* repeats the call whose morph the frame has just run, requests no frame and
\* leaves the pending morph as it is.
C4_RepeatNeverSchedules ==
  [][(DeferredStep /\ lastOp.c = lastOp'.c /\ lastOp.m = lastOp'.m
        /\ (lastOp.op = "deferred" \/ (lastOp.op = "frame" /\ lastOp.patched = 1)))
       => (~lastOp'.scheduled /\ UNCHANGED pendingVars)]_vars

\* C4 amended: a morphContent call that repeats the call whose morph the frame
\* has just run (so that its hash is the stored one) requests no frame and
\* leaves the pending variables alone; a call that repeats a call whose morph
\* is still pending cancels that frame and requests a new one for the same
\* container and markup, so that one callback stays queued.
C4_RepeatAfterFrameNeverSchedules ==
  [][(DeferredStep /\ lastOp.c = lastOp'.c /\ lastOp.m = lastOp'.m) =>
       /\ (lastOp.op = "frame" /\ lastOp.patched = 1)
            => (~lastOp'.scheduled /\ UNCHANGED pendingVars)
       /\ (lastOp.op = "deferred" /\ ~lastOp.scheduled)
            => (~lastOp'.scheduled /\ UNCHANGED pendingVars)
       /\ (lastOp.op = "deferred" /\ lastOp.scheduled)
            => (/\ lastOp'.scheduled /\ lastOp'.cancelled = lastOp'.c
                /\ Len(rafQueue') = 1 /\ rafQueue'[1].newHash = HashOf[lastOp'.m]
                /\ pendingElement' = lastOp'.c /\ pendingHtml' = lastOp'.m)]_vars

\* the call before the frame is repeated after it, and nothing is requested
C4_Witness ==
  /\ lastOp.op = "deferred" /\ ~lastOp.scheduled /\ lastOp.prev = "fired"
  /\ morphStates[lastOp.c].contentHash = HashOf[lastOp.m]
  /\ rafQueue = <<>>

\* C5 as stated: a morphContent call on one container leaves the morph
\* pending for another container in place.
C5_PendingPerContainer ==
  [][(DeferredStep /\ pendingMorph # NoHandle /\ pendingElement # lastOp'.c)
         => (/\ pendingElement' = pendingElement /\ pendingHtml' = pendingHtml
             /\ \E k \in 1..Len(rafQueue') : rafQueue'[k].handle = pendingMorph)]_vars

\* C6: after resetMorphCache(container) the container has no state and no
\* callback is queued, so that the next frame changes neither a tree nor a
\* stored hash.
C6_ResetCancelsPending ==
  lastOp.op = "reset" =>
    /\ morphStates[lastOp.c] = NoState
    /\ pendingMorph = NoHandle /\ pendingElement = Null /\ pendingHtml = NullHtml
    /\ rafQueue = <<>>
    /\ FrameEffect.dom = dom /\ FrameEffect.ms = morphStates

\* the reset cancelled a morph pending for its own container
C6_Witness == lastOp.op = "reset" /\ lastOp.cancelled = lastOp.c

\* ------------------------------------------------------------------------
\* Claims on the resets (SpecMixed)
\* ------------------------------------------------------------------------

ResetStep == lastOp'.op = "reset" /\ resetMorphCache(lastOp'.c)

ChildrenStep == lastOp'.op = "children" /\ morphContentOptimized(lastOp'.c, lastOp'.m)

\* C7: resetMorphCache(container) leaves the state of every other container
\* as it is, so that a morph of another container skips what it would have
\* skipped without the reset.
C7_ResetLeavesOtherStates ==
  [][ResetStep =>
       \A c2 \in Containers \ {lastOp'.c} :
         /\ morphStates'[c2] = morphStates[c2]
         /\ \A m \in TwoMarkups :
              /\ (getState(morphStates', c2).contentHash = HashOf[m])
                   = (getState(morphStates, c2).contentHash = HashOf[m])
              /\ Optimized(dom'[c2], getState(morphStates', c2), m)
                   = Optimized(dom[c2], getState(morphStates, c2), m)]_vars

\* a container was reset while another one had hashes and stats stored
C7_Witness ==
  /\ lastOp.op = "reset"
  /\ \E c2 \in Containers \ {lastOp.c} :
       /\ morphStates[c2] # NoState
       /\ morphStates[c2].contentHash # EmptyHash
       /\ morphStates[c2].prevHashes # <<>>
       /\ morphStates[c2].lastStats.skipped > 0

\* the call follows a resetMorphCache of its container
AfterReset == lastOp.op = "reset" /\ lastOp.c = lastOp'.c

\* C8: a morph called after resetMorphCache(container) does what it does on a
\* container without state that has the same children: the whole-tree morph
\* runs, the batched one requests its frame, the element-level one skips
\* nothing, and the state they leave is the one built from a fresh state.
C8_ResetThenMorphAsFresh ==
  [][AfterReset =>
       LET c == lastOp'.c
           m == lastOp'.m
           r == Optimized(dom[c], FreshState, m)
       IN  /\ SyncStep =>
                /\ lastOp'.patched = 1
                /\ dom'[c] = MorphInner(dom[c], ChildrenOf[m])
                /\ morphStates'[c] = [FreshState EXCEPT !.contentHash = HashOf[m]]
           /\ DeferredStep =>
                /\ lastOp'.scheduled /\ lastOp'.cancelled = Null
                /\ dom' = dom
                /\ morphStates'[c] = FreshState
                /\ pendingElement' = c /\ pendingHtml' = m
                /\ rafQueue' = <<[handle |-> pendingMorph', newHash |-> HashOf[m]]>>
           /\ ChildrenStep =>
                /\ dom'[c] = r.children
                /\ morphStates'[c] = [FreshState EXCEPT !.prevHashes = r.newHashes,
                                                        !.lastStats = r.stats]
                /\ lastOp'.touched = r.touched
                /\ r.stats.skipped = 0]_vars

\* after a reset, the element-level morph has patched every child of a
\* container that had been morphed before
C8_Witness ==
  /\ lastOp.op = "children" /\ lastOp.prev = "reset" /\ lastOp.was # NullHtml
  /\ morphStates[lastOp.c].lastStats.updated = 2

\* ------------------------------------------------------------------------
\* Claims on the element-level morph (SpecChildren)
\* ------------------------------------------------------------------------

Shared(c, m) == 1..Min(Len(dom[c]), Len(ChildrenOf[m]))

\* a position is patched exactly when its stored hash is not the hash of the
\* new node, and a position that is not patched keeps its child
SkipRule(c, m) ==
  LET kids == ChildrenOf[m]
      stored == getState(morphStates, c).prevHashes
      stats == morphStates'[c].lastStats
  IN  /\ \A k \in Shared(c, m) :
           /\ (k \in lastOp'.touched) <=> (k > Len(stored) \/ stored[k] # HashOf[kids[k]])
           /\ k \notin lastOp'.touched => dom'[c][k] = dom[c][k]
      /\ lastOp'.touched \subseteq Shared(c, m)
      /\ stats.updated = Cardinality(lastOp'.touched)
      /\ stats.skipped = Cardinality(Shared(c, m) \ lastOp'.touched)

\* the call before was a morphContentOptimized of the same container, which
\* still has as many children as the call left
AfterChildren(c) ==
  lastOp.op = "children" /\ lastOp.c = c /\ Len(dom[c]) = Len(ChildrenOf[lastOp.m])

\* C10 as stated: the skip rule, and a reordering that changes the content
\* of every position has every position patched and none skipped.
C10_PositionalSkipRule ==
  [][ChildrenStep =>
       LET c == lastOp'.c
           m == lastOp'.m
       IN  /\ SkipRule(c, m)
           /\ (AfterChildren(c) /\ Reordered(lastOp.m, m))
                => (lastOp'.touched = Shared(c, m)
                    /\ morphStates'[c].lastStats.skipped = 0)]_vars

\* C10 amended: the skip rule, and a reordering that changes the hash of
\* every position has every position patched and none skipped.
C10_PositionalSkipRuleByHash ==
  [][ChildrenStep =>
       LET c == lastOp'.c
           m == lastOp'.m
       IN  /\ SkipRule(c, m)
           /\ (/\ AfterChildren(c) /\ Reordered(lastOp.m, m)
               /\ \A k \in Shared(c, m) :
                    HashOf[ChildrenOf[lastOp.m][k]] # HashOf[ChildrenOf[m][k]])
                => (lastOp'.touched = Shared(c, m)
                    /\ morphStates'[c].lastStats.skipped = 0)]_vars

\* a reordering has patched both positions
C10_Witness ==
  /\ lastOp.op = "children" /\ lastOp.prev = "reorder"
  /\ lastOp.touched = {1, 2}
  /\ morphStates[lastOp.c].lastStats.updated = 2
  /\ morphStates[lastOp.c].lastStats.skipped = 0

\* C11: a morphContentOptimized call that repeats the call before it, on a
\* container that still has the children that call left in number, skips
\* every position: skipped is the number of top-level nodes, updated, added
\* and removed are 0, the call returns false and no child changes.
C11_RepeatSkipsAll ==
  [][(ChildrenStep /\ AfterChildren(lastOp'.c) /\ lastOp.m = lastOp'.m) =>
       LET c == lastOp'.c
           n == Len(ChildrenOf[lastOp'.m])
       IN  /\ morphStates'[c].lastStats
                = [updated |-> 0, skipped |-> n, added |-> 0, removed |-> 0]
           /\ lastOp'.ret = FALSE
           /\ lastOp'.touched = {}
           /\ dom' = dom]_vars

\* a call with two top-level nodes was repeated and skipped both
C11_Witness ==
  /\ lastOp.op = "children" /\ lastOp.prev = "same" /\ ~lastOp.ret
  /\ Len(ChildrenOf[lastOp.m]) = 2
  /\ morphStates[lastOp.c].lastStats.skipped = 2
  /\ Matches(dom[lastOp.c], lastOp.m)

\* C12: when morphContentOptimized returns, prevHashes has one entry for each
\* child of the container, and entry k is the hash of the k-th top-level node
\* of the markup of the call.
C12_HashPerChild ==
  [][ChildrenStep =>
       LET c == lastOp'.c
           kids == ChildrenOf[lastOp'.m]
           stored == morphStates'[c].prevHashes
       IN  /\ Len(stored) = Len(dom'[c])
           /\ Len(stored) = Len(kids)
           /\ \A k \in 1..Len(stored) : stored[k] = HashOf[kids[k]]]_vars

\* a call has skipped one child, updated another, and stored both hashes
C12_Witness ==
  /\ lastOp.op = "children"
  /\ morphStates[lastOp.c].lastStats.skipped = 1
  /\ morphStates[lastOp.c].lastStats.updated = 1
  /\ Len(morphStates[lastOp.c].prevHashes) = 2
  /\ Len(dom[lastOp.c]) = 2

\* C13 as stated: no morph removes a data-morph-ignore child from its
\* container.
C13_ProtectedNeverRemoved ==
  [][(ChildrenStep \/ SyncStep \/ AnimationFrame) =>
       \A c \in Containers :
         Cardinality(Protected(dom'[c])) >= Cardinality(Protected(dom[c]))]_vars

StatsStep == lastOp'.op = "stats" /\ getMorphStats(lastOp'.c)

\* the stats fit what the call recorded in lastOp did
StatsOfCall(stats, op) ==
  /\ stats.updated = Cardinality(op.touched)
  /\ stats.updated + stats.skipped + stats.added >= Len(ChildrenOf[op.m])
  /\ op.ret = (stats.updated > 0 \/ stats.added > 0 \/ stats.removed > 0)

\* C14: a morphContentOptimized call on one container reads and writes only
\* that container's children, prevHashes and lastStats, so that interleaved
\* calls on another container change nothing of it; getMorphStats(container)
\* returns the lastStats of the container itself, which are those of the
\* last morphContentOptimized call on it.
C14_ChildrenIsolated ==
  [][/\ ChildrenStep =>
          LET c == lastOp'.c
              r == Optimized(dom[c], getState(morphStates, c), lastOp'.m)
          IN  /\ \A c2 \in Containers \ {c} :
                   dom'[c2] = dom[c2] /\ morphStates'[c2] = morphStates[c2]
              /\ dom'[c] = r.children
              /\ morphStates'[c].prevHashes = r.newHashes
              /\ morphStates'[c].lastStats = r.stats
     /\ StatsStep =>
          LET c == lastOp'.c
          IN  /\ dom' = dom
              /\ \A c2 \in Containers \ {c} : morphStates'[c2] = morphStates[c2]
              /\ morphStates'[c] = getState(morphStates, c)
              /\ (lastOp.op = "children" /\ lastOp.c = c)
                   => StatsOfCall(morphStates'[c].lastStats, lastOp)
              /\ (lastOp.op = "children" /\ lastOp.c # c)
                   => morphStates'[c].lastStats = getState(morphStates, c).lastStats]_vars

\* a call has skipped both children of its container after a call on the
\* other container that added one child of other content
C14_Witness ==
  /\ lastOp.op = "children"
  /\ morphStates[lastOp.c].lastStats = [updated |-> 0, skipped |-> 2, added |-> 0, removed |-> 0]
  /\ \E c2 \in Containers \ {lastOp.c} :
       /\ morphStates[c2] # NoState
       /\ morphStates[c2].lastStats = [updated |-> 0, skipped |-> 0, added |-> 1, removed |-> 0]
       /\ Len(morphStates[c2].prevHashes) = 1
       /\ dom[c2] # <<>>

\* ------------------------------------------------------------------------
\* Claims on one cache (SpecCache)
\* ------------------------------------------------------------------------

SetStep ==
  /\ lastCache'.op = "set"
  /\ set(lastCache'.p, lastCache'.key, lastCache'.value, lastCache'.hint)

GetStep == lastCache'.op = "get" /\ get(lastCache'.p, lastCache'.key)

HasStep == lastCache'.op = "has" /\ has(lastCache'.p, lastCache'.key)

CacheStatsStep == lastCache'.op = "stats" /\ cacheStats(lastCache'.p)

EvictOldestStep == lastCache'.op = "evictOldest" /\ evictOldest(lastCache'.p, lastCache'.n)

\* the size set gives the new entry
SizeGiven(value, hint) == IF hint = NoHint THEN Len(value) * 2 ELSE hint

RECURSIVE SumSizes(_, _)
\* the sum of the size estimates of the keys
SumSizes(c, keys) ==
  IF keys = <<>> THEN 0 ELSE SizeOf(c, Head(keys)) + SumSizes(c, Tail(keys))

\* C15 as stated: a cache never holds more than maxEntries entries, and a
\* set of a new key into a cache that holds maxEntries entries (the new size
\* fitting maxBytes once the oldest entry is gone) evicts exactly the oldest
\* entry and inserts the new one.
C15_EntryCap ==
  [][/\ \A p \in Partitions : Len(caches'[p].cache) <= maxEntries(p)
     /\ SetStep =>
          LET p == lastCache'.p
              c == caches[p]
              key == lastCache'.key
              size == SizeGiven(lastCache'.value, lastCache'.hint)
          IN  (/\ Len(c.cache) = maxEntries(p) /\ ~Has(c, key)
               /\ c.totalBytes - SizeOf(c, c.cache[1].key) + size <= maxBytes(p))
                => (/\ KeysOf(caches'[p]) = Append(Tail(KeysOf(c)), key)
                    /\ ~Has(caches'[p], c.cache[1].key)
                    /\ Has(caches'[p], key))]_vars

\* the keys that are no longer in the cache are the oldest ones: no key that
\* left the cache was used after a key that stays (the key of a set is put
\* back and does not count)
OldestLeft(old, new, key) ==
  \A i, j \in 1..Len(old) :
    (i < j /\ old[j] # key /\ old[j] \notin new) => (old[i] = key \/ old[i] \notin new)

\* C16: the keys of a cache are kept in the order of their last set or
\* successful get, and entries leave the cache oldest first; a get of a
\* present key makes it the most recently used and keeps the order of the
\* others; has and stats change nothing.
C16_RecencyOrder ==
  [][/\ \A p \in Partitions :
          /\ KeysOf(caches'[p]) = recency'[p]
          /\ OldestLeft(KeysOf(caches[p]), LiveKeys(caches'[p]),
                        IF lastCache'.op = "set" THEN lastCache'.key ELSE Null)
     /\ (HasStep \/ CacheStatsStep) => UNCHANGED <<caches, recency>>
     /\ (GetStep /\ lastCache'.found) =>
          LET p == lastCache'.p
              key == lastCache'.key
              old == KeysOf(caches[p])
          IN  /\ KeysOf(caches'[p]) = Append(SelectSeq(old, LAMBDA k : k # key), key)
              /\ \A k \in LiveKeys(caches[p]) :
                   ValueOf(caches'[p], k) = ValueOf(caches[p], k)]_vars

\* a get has made the oldest of three keys the most recently used
C16_Witness ==
  /\ lastCache.op = "get" /\ lastCache.found
  /\ Len(lastCache.before) = 3 /\ lastCache.before[1] = lastCache.key
  /\ KeysOf(caches[lastCache.p]) = Append(Tail(lastCache.before), lastCache.key)

\* the size estimates are those of the live keys, and totalBytes is their sum
Accounted(c) ==
  /\ DOMAIN c.sizeEstimates = LiveKeys(c)
  /\ c.totalBytes = SumSizes(c, KeysOf(c))

\* C17: after every call the keys with a size estimate are the live keys and
\* estimatedBytes is the sum of their estimates; the estimate of an entry is
\* the sizeBytes of its set, or twice the length of its value, and stays the
\* same until the entry is removed or set again.
C17_BytesAccounted ==
  [][\A p \in Partitions :
       /\ Accounted(caches'[p])
       /\ \A k \in LiveKeys(caches'[p]) :
            IF lastCache'.op = "set" /\ lastCache'.p = p /\ lastCache'.key = k
              THEN SizeOf(caches'[p], k) = SizeGiven(lastCache'.value, lastCache'.hint)
              ELSE Has(caches[p], k) /\ SizeOf(caches'[p], k) = SizeOf(caches[p], k)]_vars

\* a set into a full cache has evicted an entry, and the cache holds an entry
\* of an explicit size and one of an estimated size
C17_Witness ==
  /\ lastCache.op = "set" /\ ~hung
  /\ Len(lastCache.before) = MaxEntries
  /\ lastCache.key \notin {lastCache.before[k] : k \in 1..Len(lastCache.before)}
  /\ \E k1, k2 \in LiveKeys(caches[lastCache.p]) :
       /\ SizeOf(caches[lastCache.p], k1) = 3
       /\ SizeOf(caches[lastCache.p], k2) = 2
  /\ caches[lastCache.p].totalBytes >= 5

\* C18 as stated: after every set the totalBytes of the cache are at most its
\* maxBytes, for every size.
C18_ByteCap ==
  [][(SetStep /\ ~hung') =>
       caches'[lastCache'.p].totalBytes <= maxBytes(lastCache'.p)]_vars

\* C19 as stated: every set call returns.
C19_SetReturns == ~hung

\* C20 as stated: evictOldest(n) removes the min(n, entries) oldest entries
\* and subtracts their sizes; with n >= entries the cache ends empty with
\* totalBytes = 0, and on an empty cache nothing changes.
C20_EvictOldestExact ==
  [][EvictOldestStep =>
       LET p == lastCache'.p
           c == caches[p]
           n == Min(lastCache'.n, Len(c.cache))
           gone == SubSeq(KeysOf(c), 1, n)
       IN  /\ KeysOf(caches'[p]) = SubSeq(KeysOf(c), n + 1, Len(c.cache))
           /\ caches'[p].totalBytes = c.totalBytes - SumSizes(c, gone)
           /\ lastCache'.n >= Len(c.cache) => caches'[p] = EmptyCache
           /\ c = EmptyCache => caches'[p] = c]_vars

\* the keys of `old` that are not in the cache `c`, in their order
Gone(old, c) == SelectSeq(old, LAMBDA k : ~Has(c, k))

\* C21: when set(key, value) has returned, the cache has the key with this
\* value, a get of the key right after it returns the value and a has returns
\* true; the size of the new entry takes the place of the size the key had
\* before: totalBytes is the old total less the sizes of the prior entry and
\* of the evicted entries, plus the new size.
C21_SetThenGet ==
  [][/\ (SetStep /\ ~hung') =>
          LET p == lastCache'.p
              key == lastCache'.key
              c == caches[p]
              size == SizeGiven(lastCache'.value, lastCache'.hint)
              evicted == Gone(SelectSeq(KeysOf(c), LAMBDA k : k # key), caches'[p])
          IN  /\ Has(caches'[p], key)
              /\ ValueOf(caches'[p], key) = lastCache'.value
              /\ SizeOf(caches'[p], key) = size
              /\ Cardinality({i \in 1..Len(caches'[p].cache) :
                                caches'[p].cache[i].key = key}) = 1
              /\ caches'[p].totalBytes
                   = c.totalBytes - SizeOf(c, key) - SumSizes(c, evicted) + size
     /\ (lastCache.op = "set" /\ ~hung /\ lastCache'.p = lastCache.p
           /\ lastCache'.key = lastCache.key) =>
          /\ GetStep => (lastCache'.found /\ lastCache'.ret = lastCache.value)
          /\ HasStep => lastCache'.found]_vars

\* a set has replaced the value and the size of a key of a full cache
C21_Witness ==
  LET c == caches[lastCache.p]
  IN  /\ lastCache.op = "set" /\ ~hung
      /\ Len(lastCache.before) = MaxEntries /\ Len(c.cache) = MaxEntries
      /\ \E i \in 1..(MaxEntries - 1) : lastCache.before[i] = lastCache.key
      /\ ValueOf(c, lastCache.key) = <<120>>
      /\ SizeOf(c, lastCache.key) = 2
      /\ c.totalBytes = 2

ClearStep == lastCache'.op = "clear" /\ clear(lastCache'.p)

TrimStep == lastCache'.op = "trimIfNeeded" /\ trimIfNeeded

\* a call on one cache of the manager
PartitionStep == GetStep \/ SetStep \/ HasStep \/ ClearStep \/ EvictOldestStep

\* the keys a call on the cache left, oldest first
Survivors(c, n) == SubSeq(KeysOf(c), n + 1, Len(c.cache))

\* C22: a call on one cache of the manager (get, set, has, clear,
\* evictOldest) leaves every other cache as it was: the same entries in the
\* same order, the same sizes, the same byte total
C22_PartitionsIndependent ==
  [][PartitionStep =>
       \A q \in Partitions \ {lastCache'.p} :
         caches'[q] = caches[q] /\ recency'[q] = recency[q]]_vars

C22_Witness ==
  /\ lastCache.op = "set"
  /\ lastCache.p = "morph"
  /\ lastCache.key = "a"
  /\ ~hung
  /\ Has(caches["renderSync"], "a")
  /\ ValueOf(caches["morph"], "a") # ValueOf(caches["renderSync"], "a")
  /\ Len(caches["renderSync"].cache) = 2

\* C23: trimIfNeeded called while the caches' byte total is at most nine
\* tenths of the memory budget changes no cache
C23_TrimBelowThreshold ==
  [][(TrimStep /\ SumBytes(caches, Partitions) * 10 <= memoryBudget * 9) =>
       (caches' = caches /\ recency' = recency)]_vars

C23_Witness ==
  /\ lastCache.op = "trimIfNeeded"
  /\ ~lastCache.found
  /\ \A p \in Partitions : Len(caches[p].cache) >= 2
  /\ SumBytes(caches, Partitions) > 0

\* C24: trimIfNeeded called while the caches' byte total exceeds nine tenths
\* of the memory budget removes from every cache exactly its
\* ceil(0.25 * entries) least recently used entries
C24_TrimAboveThreshold ==
  [][(TrimStep /\ SumBytes(caches, Partitions) * 10 > memoryBudget * 9) =>
       \A p \in Partitions :
         /\ KeysOf(caches'[p]) = Survivors(caches[p], targetEvictions(caches[p]))
         /\ Len(caches'[p].cache) = Len(caches[p].cache) - targetEvictions(caches[p])]_vars

\* ------------------------------------------------------------------------
\* Claims on the pacing and the throttle of the viewer
\* ------------------------------------------------------------------------

UpdateStep == lastView'.op = "update" /\ performUpdate(lastMorphDuration')

FrameStep == lastView'.op = "frame" /\ throttleFrame

AdjustStep == lastView'.op = "adjust" /\ measureAndAdjust(lastMorphDuration')

\* the update runs _updateThrottledText
Gate == "text" \in changed \/ "isStreaming" \in changed

\* the ideal interval of a duration, within the bounds of the base interval
ClampedIdeal(baseThrottle, morphTime) ==
  Max(minThrottle(baseThrottle), Min(maxThrottle(baseThrottle), idealThrottle(morphTime)))

\* C25: whenever the throttle gate reads the effective interval, the
\* interval is at least the base interval throttleMs and at most
\* max(throttleMs * 4, 200), also after the host has changed throttleMs
C25_PacingBounds ==
  [][(UpdateStep /\ Gate /\ isStreaming) =>
       /\ minThrottle(throttleMs) <= effectiveThrottleMs
       /\ effectiveThrottleMs <= maxThrottle(throttleMs)]_vars

\* C26: in the update that begins a streaming session (isStreaming went from
\* false to true) the effective interval is the base interval
C26_PacingResetsPerSession ==
  [][(UpdateStep /\ "isStreaming" \in changed /\ isStreaming /\ ~oldStreaming) =>
       effectiveThrottleMs = throttleMs * Resolution]_vars

\* C27: an adjustment for a measured duration d moves the interval by three
\* tenths of its distance to d / 0.25, clamped to the bounds; the interval moves
\* toward the clamped ideal and never passes it, and it moves as long as
\* it is a whole step away. With base 50 and d = 40 repeated, the interval rises
\* toward 160 and never exceeds it
C27_PacingConverges ==
  [][AdjustStep =>
       LET cur == effectiveThrottleMs
           d == lastMorphDuration'
           ideal == d * 4 * Resolution
           target == ClampedIdeal(throttleMs, d)
           step == ((ideal - cur) * 3 + 5) \div 10
           new == adaptiveThrottleMs'
       IN  /\ new = Max(minThrottle(throttleMs), Min(maxThrottle(throttleMs), cur + step))
           /\ cur <= target => (cur <= new /\ new <= target)
           /\ cur >= target => (target <= new /\ new <= cur)
           /\ (cur < target /\ ideal - cur >= 2) => new > cur
           /\ (cur > target /\ cur - ideal >= 2) => new < cur
           /\ (throttleMs = 50 /\ d = 40 /\ cur <= 160 * Resolution) =>
                (cur <= new /\ new <= 160 * Resolution)]_vars

C27_Witness ==
  /\ lastView.op = "adjust"
  /\ lastView.repeat
  /\ lastView.rose
  /\ throttleMs = 50
  /\ lastMorphDuration = 40
  /\ adaptiveThrottleMs > 150 * Resolution
  /\ adaptiveThrottleMs <= 160 * Resolution

\* C28: while isStreaming is set, an assignment of _throttledText, by the
\* update or by the requested callback, that follows another one of the
\* same streaming session is at least the effective interval after it
C28_MinimumSpacing ==
  [][((UpdateStep \/ FrameStep) /\ lastView'.applied /\ isStreaming
        /\ lastView.sessionApplied) => Elapsed]_vars

\* C29: while streaming, a content event inside the throttle window
\* requests a callback only if none is marked scheduled and leaves the applied
\* text and _lastThrottleTime alone; the callback, run while streaming and
\* marked scheduled, assigns the text of that moment, sets _lastThrottleTime
\* to now and clears _rafScheduled
C29_ThrottleCoalescing ==
  [][/\ (UpdateStep /\ Gate /\ isStreaming /\ ~Elapsed) =>
          /\ rafScheduled'
          /\ viewerRafs' = IF rafScheduled THEN viewerRafs ELSE viewerRafs + 1
          /\ throttledText' = throttledText
          /\ lastThrottleTime' = lastThrottleTime
     /\ (FrameStep /\ rafScheduled /\ isStreaming) =>
          /\ throttledText' = text
          /\ lastThrottleTime' = now
          /\ ~rafScheduled'
          /\ viewerRafs' = viewerRafs - 1]_vars

C29_Witness ==
  /\ lastView.op = "frame"
  /\ lastView.applied
  /\ lastView.events = 2
  /\ lastView.schedText # throttledText
  /\ throttledText = text
  /\ lastThrottleTime = now
  /\ ~rafScheduled
  /\ viewerRafs = 0
  /\ isStreaming

\* C30: an update for a changed text or isStreaming while isStreaming is
\* false assigns the text to _throttledText, whatever _lastThrottleTime is,
\* and leaves _rafScheduled false
C30_NotLiveImmediate ==
  [][(UpdateStep /\ Gate /\ ~isStreaming) =>
       (throttledText' = text /\ ~rafScheduled')]_vars

C30_Witness ==
  /\ lastView.op = "update"
  /\ lastView.content
  /\ lastView.applied
  /\ ~isStreaming
  /\ throttledText = text
  /\ text # ""
  /\ ~Elapsed
  /\ ~rafScheduled
  /\ viewerRafs > 0

\* ------------------------------------------------------------------------
\* Claims on the hasher (SpecHash)
\* ------------------------------------------------------------------------

\* (h * 33) mod 2^32 of the uint32 h
Times33(h) ==
  LET lo33 == h[2] * 33
      hi33 == h[1] * 33 + (lo33 \div Half)
  IN  <<hi33 % Half, lo33 % Half>>

\* the accumulator h(0) = h, h(i+1) = ((h(i) * 33) xor charCode(i)) mod 2^32
\* from position i on
RECURSIVE Accumulator(_, _, _)
Accumulator(str, i, h) ==
  IF i > Len(str) THEN h
  ELSE LET p == Times33(h)
       IN  Accumulator(str, i + 1, <<p[1], Xor16(p[2], str[i])>>)

\* a value in [0, 2^32)
IsWord(h) == h[1] \in 0..(Half - 1) /\ h[2] \in 0..(Half - 1)

\* C31: simpleHash(s) is "<len(s)>:<u>" with u the value of the accumulator
\* h0 = 5381, h(i+1) = ((h(i) * 33) xor charCode(i)) mod 2^32; u lies in
\* [0, 2^32); a string hashed again has the same hash and two strings of
\* different lengths have different hashes.
C31_HashNumeric ==
  [][lastOp'.op = "hash" =>
       LET str == lastOp'.m
           hash == lastOp'.ret
       IN  /\ hash.len = Len(str)
           /\ hash.u = Accumulator(str, 1, SeedWord)
           /\ IsWord(hash.u)
           /\ lastOp.op = "hash" =>
                /\ lastOp.m = str => lastOp.ret = hash
                /\ Len(lastOp.m) # Len(str) => lastOp.ret # hash]_vars

\* a string of MaxLen chars was hashed and the int32 accumulator ended negative
C31_Witness ==
  /\ lastOp.op = "hash"
  /\ Len(lastOp.m) = MaxLen
  /\ HashLoop(lastOp.m, 1, SeedWord)[1] < 0

\* ------------------------------------------------------------------------
\* Claims on the engines mixed on one container (SpecMixed)
\* ------------------------------------------------------------------------

\* the call of the step is complete: a synchronous morph, or a batched one
\* that requested no frame
Completed == SyncStep \/ ChildrenStep \/ (DeferredStep /\ ~lastOp'.scheduled)

\* C32 as stated: after morphContentSync, morphContentOptimized or a
\* morphContent that requests no frame, the container shows the markup of the
\* call, and after the frame the pending container shows the pending markup:
\* a skip happens only where the tree already shows the markup.
C32_MixedConsistency ==
  [][/\ Completed => Matches(dom'[lastOp'.c], lastOp'.m)
     /\ (AnimationFrame /\ pendingElement # Null)
          => Matches(dom'[pendingElement], pendingHtml)]_vars

\* C33 as stated: when the frame fires right after a morphContentSync or a
\* morphContentOptimized of the container whose batched morph is pending,
\* the container still shows the markup of that call.
C33_StaleDeferredNeverWins ==
  [][(/\ AnimationFrame
      /\ lastOp.op \in {"sync", "children"}
      /\ pendingMorph # NoHandle /\ pendingElement = lastOp.c
      /\ Matches(dom[lastOp.c], lastOp.m))
       => Matches(dom'[lastOp.c], lastOp.m)]_vars

\* ------------------------------------------------------------------------
\* Claims on a failing patch primitive (SpecFailure)
\* ------------------------------------------------------------------------

ThrowStep == lastOp'.op = "syncThrew" /\ morphContentSyncThrows(lastOp'.c, lastOp'.m)

\* C34 as stated: when Idiomorph.morph throws during morphContentSync(c, m),
\* the stored contentHash keeps the value it had, and the same call made
\* again runs the morph.
C34_FailureKeepsHash ==
  [][/\ ThrowStep
          => getState(morphStates', lastOp'.c).contentHash
               = getState(morphStates, lastOp'.c).contentHash
     /\ (SyncStep /\ lastOp.op = "syncThrew" /\ lastOp.c = lastOp'.c /\ lastOp.m = lastOp'.m)
          => lastOp'.patched = 1]_vars

\* ------------------------------------------------------------------------
\* Claims on the reset and the pending morph of another container (SpecWhole)
\* ------------------------------------------------------------------------

\* C35 as stated: resetMorphCache(c1) leaves the morph pending for another
\* container c2 as it is, and the next frame morphs c2 to the pending markup.
C35_ResetCancelsOwnOnly ==
  [][(ResetStep /\ pendingMorph # NoHandle /\ pendingElement # lastOp'.c)
       => /\ UNCHANGED pendingVars
          /\ Matches(FrameEffect'.dom[pendingElement], pendingHtml)]_vars

\* ------------------------------------------------------------------------
\* Claims on the throttle under fair scheduling (SpecLive)
\* ------------------------------------------------------------------------

\* the text shown is not the latest text
Behind == throttledText # text

\* C36 as stated: with updates and animation frames running fairly, under
\* content events, isStreaming toggles and disconnects, a text that is not yet
\* applied is eventually applied or replaced by the applied one: the
\* throttled text does not stay behind the text for ever.
C36_ThrottleLiveness == Behind ~> ~Behind

\* ------------------------------------------------------------------------
\* Claims on the outstanding callbacks of the throttle (SpecThrottle)
\* ------------------------------------------------------------------------

\* C37 as stated: at most one callback requested by _updateThrottledText is
\* outstanding, and _rafScheduled is true exactly when one is.
C37_OneOutstanding ==
  /\ viewerRafs <= 1
  /\ rafScheduled <=> viewerRafs = 1

\* ------------------------------------------------------------------------
\* Claims on the recovery of the pacing (SpecRecover)
\* ------------------------------------------------------------------------

\* the base interval on the grid of the intervals
BaseInterval == throttleMs * Resolution

\* the duration measured last is below a quarter of the base interval
Low == lastMorphDuration * 4 < throttleMs

AtBase == effectiveThrottleMs = BaseInterval

InBounds ==
  /\ BaseInterval <= effectiveThrottleMs
  /\ effectiveThrottleMs <= maxThrottle(throttleMs)

\* C38: from an interval within its bounds, an adjustment for a duration d
\* with d / 0.25 below the base interval never raises the interval, and
\* lowers it unless it lands on the base interval; when from some point on
\* only such durations are measured, with the base interval left alone, the
\* interval comes to be the base interval and stays it.
C38_PacingRecovers ==
  /\ [][(AdjustStep /\ InBounds /\ lastMorphDuration' * 4 < throttleMs) =>
          /\ effectiveThrottleMs' <= effectiveThrottleMs
          /\ \/ effectiveThrottleMs' = BaseInterval
             \/ effectiveThrottleMs' < effectiveThrottleMs]_vars
  /\ \A b \in BaseIntervals : <>[](Low /\ throttleMs = b) => <>[]AtBase

\* a duration of 0 was measured and the interval, on its way down, is still
\* between the base interval and the upper bound
C38_Witness ==
  /\ lastView.op = "adjust"
  /\ lastMorphDuration = 0
  /\ adaptiveThrottleMs > BaseInterval
  /\ adaptiveThrottleMs < maxThrottle(throttleMs)

\* ------------------------------------------------------------------------
\* Claims on the update of a key of a full cache (SpecCache)
\* ------------------------------------------------------------------------

\* C39: set(k, v) on a key the cache holds, the cache holding maxEntries
\* entries and the new size fitting maxBytes next to the other entries,
\* leaves every other entry in its place with its size, keeps maxEntries
\* entries, and makes k the entry used last, with the new value and size.
C39_UpdateAtCapEvictsNobody ==
  [][SetStep =>
       LET p == lastCache'.p
           key == lastCache'.key
           c == caches[p]
           size == SizeGiven(lastCache'.value, lastCache'.hint)
       IN  (/\ Has(c, key)
            /\ Len(c.cache) = maxEntries(p)
            /\ c.totalBytes - SizeOf(c, key) + size <= maxBytes(p))
           => /\ ~hung'
              /\ MapDelete(caches'[p].cache, key) = MapDelete(c.cache, key)
              /\ \A k \in LiveKeys(c) \ {key} : SizeOf(caches'[p], k) = SizeOf(c, k)
              /\ Len(caches'[p].cache) = maxEntries(p)
              /\ caches'[p].cache[maxEntries(p)] = [key |-> key, value |-> lastCache'.value]
              /\ SizeOf(caches'[p], key) = size
              /\ caches'[p].totalBytes = c.totalBytes - SizeOf(c, key) + size]_vars

\* the oldest key of a full cache was set again: it is the newest now and the
\* others have moved up, the empty key among them
C39_Witness ==
  LET c == caches[lastCache.p]
  IN  /\ lastCache.op = "set" /\ ~hung
      /\ Len(lastCache.before) = MaxEntries
      /\ lastCache.before[1] = lastCache.key
      /\ KeysOf(c) = Tail(lastCache.before) \o <<lastCache.key>>
      /\ "" \in LiveKeys(c)

====
